---- MODULE Spec2Model ----
(***************************************************************************)
(* A model of the MCSR Ranked statistics analyzer: the Match outcome       *)
(* model (src/src/core/match.py), the fetch / cache / incremental-sync     *)
(* pipeline of MCSRAnalyzer (src/mcsr_stats.py) and the sliding-window     *)
(* RateLimitTracker (src/src/core/rate_limiter.py).                        *)
(*                                                                         *)
(* The specifications share the module:                                    *)
(*   SpecMatch  Match construction and the two decoders of the match cache *)
(*   SpecFetch  fetch_all_matches, one step per HTTP request (FairSpecFetch *)
(*              adds the progress of the analyzer's thread)                *)
(*   SpecRL     RateLimitTracker under a discrete clock                    *)
(*   SpecRLState  the tracker with its persisted state over restarts        *)
(*   SpecFilter filter_matches and the aggregations on a collection        *)
(*   SpecForecast  SpeedrunForecaster on a collection of runs with segments *)
(* Each one leaves the variables of the others at their initial value.     *)
(***************************************************************************)
EXTENDS Integers, Sequences, FiniteSets, TLC

VARIABLES
    \* ---- SpecMatch
    data,               \* the raw payload handed to Match(data, analyzed_username)
    analyzed_username,  \* the analyzed username (None, "" or a name)
    match,              \* the constructed Match (None before construction)
    cache_row,          \* the row of the match cache file holding this match
    decoded,            \* the Match a reader of the cache rebuilt from cache_row
    mpc,                \* position: "start" -> "built" -> "cached" -> "hit" | "merged"
    \* ---- SpecFetch
    server,             \* the user's matches on the server: match id i has season server[i]
    cache,              \* the match cache file CACHE/{username}_matches.json
    an,                 \* the analyzer: the running fetch_all_matches call and its locals
    req,                \* the last HTTP request sent and the status it was answered with
    prev,               \* the request sent before it
    \* ---- SpecRL
    requests,           \* RateLimitTracker.requests: the ledger of timestamps
    now,                \* time.time(), in whole seconds
    calls,              \* the times of all record_request() calls so far
    rl_ret,             \* the last call of the limiter and what it returned
    rl_file,            \* the rate-limit state file CACHE/rate_limit_state.json
    \* ---- SpecFilter
    matches,            \* MCSRAnalyzer.matches: the analyzer's collection
    params,             \* the keyword arguments of the last filter_matches call
    filtered,           \* the list the last filter_matches call returned
    fpc,                \* position: "idle" -> "filtered" -> "again", or
                        \* "idle" -> "done" | "forecaster" -> "done"
    report,             \* the last aggregation or forecast call and its result
    fc,                 \* the SpeedrunForecaster: matches, rolling_window, percentile
    \* ---- SpecPace
    pace,               \* the fetch loop under way: its position and its pacing locals
    \* ---- SpecDetail
    analyzers,          \* the MCSRAnalyzer objects made so far: ledger and matches
    ui,                 \* ui.analyzer: the index of the current analyzer, 0 for None
    threads,            \* the fetch_segments threads: position and locals
    segment_file        \* the segment cache file CACHE/{username}_segments.json

matchVars == <<data, analyzed_username, match, cache_row, decoded, mpc>>
rlVars == <<requests, now, calls, rl_ret, rl_file>>
filterVars == <<matches, params, filtered, fpc, report, fc>>
fetchVars == <<server, cache, an, req, prev>>
paceVars == <<pace>>
detailVars == <<analyzers, ui, threads, segment_file>>
vars == <<data, analyzed_username, match, cache_row, decoded, mpc,
          server, cache, an, req, prev, requests, now, calls, rl_ret, rl_file,
          matches, params, filtered, fpc, report, fc,
          pace, analyzers, ui, threads, segment_file>>

(***************************************************************************)
(* Python values.  None is the empty set and a present value v is {v}, so  *)
(* that an optional integer, string or boolean can be compared with None.  *)
(***************************************************************************)
None == {}
Some(v) == {v}
Val(o) == CHOOSE v \in o : TRUE

\* dict.get(k, default)
Get(d, k, dflt) == IF k \in DOMAIN d THEN d[k] ELSE dflt

\* truth value of an optional string: None and "" are false
Truthy(o) == o # None /\ Val(o) # ""

\* str.lower() on the nicknames and usernames of the model
Lower(s) ==
    CASE s = "Bob" -> "bob"
      [] s = "BOB" -> "bob"
      [] OTHER -> s

Reversed(ms) == [i \in 1..Len(ms) |-> ms[Len(ms) + 1 - i]]
Max(S) == CHOOSE x \in S : \A y \in S : y <= x
Min(S) == CHOOSE x \in S : \A y \in S : x <= y

(***************************************************************************)
(* Bounds of the Match inputs.                                             *)
(***************************************************************************)
MaxPlayers == 2

Nicknames == {"Bob", "eve"}
Uuids == {"u1", "u2"}
OptUuids == {None} \cup {Some(u) : u \in Uuids}
Usernames == {None, Some(""), Some("BOB")}
ResultTimes == {None, Some(0), Some(600000)}

\* a player entry of the list endpoint
RawPlayers ==
    [nickname : Nicknames, uuid : OptUuids, eloRate : {Some(1500)}, eloChange : {Some(12)}]

SeqUpTo(S, n) == UNION {[1..k -> S] : k \in 0..n}

\* the 'result' object of a row: null, or {uuid, time} with either possibly null
RawResults == {None} \cup {Some(r) : r \in [uuid : OptUuids, time : ResultTimes]}

\* a row of GET /users/{username}/matches
RawRows ==
    [id : {7}, date : {1700000000}, category : {"ANY"}, forfeited : BOOLEAN,
     seedType : {"village"}, season : {4}, type : {2},
     players : SeqUpTo(RawPlayers, MaxPlayers), result : RawResults]

(***************************************************************************)
(* Match.__init__                                                          *)
(***************************************************************************)
\* datetime.fromtimestamp(date), str(datetime) and datetime.fromisoformat(str)
FromTimestamp(date) == [kind |-> "datetime", epoch |-> date]
DatetimeStr(dt) == [kind |-> "str", text |-> dt.epoch]
FromIsoFormat(s) == [kind |-> "datetime", epoch |-> s.text]

\* self.players: every player reduced to {nickname, uuid, elo_rate, elo_change}
PlayerSummary(p) ==
    [nickname |-> Get(p, "nickname", "Unknown"), uuid |-> Get(p, "uuid", None),
     elo_rate |-> Get(p, "eloRate", None), elo_change |-> Get(p, "eloChange", None)]

\* the indices of the players whose nickname is the analyzed username
UserIndices(players_list, username) ==
    {i \in 1..Len(players_list) :
        /\ Truthy(username)
        /\ Lower(Get(players_list[i], "nickname", "")) = Lower(Val(username))}

\* self.user_uuid: the uuid of the last player with the analyzed nickname
UserUuid(players_list, username) ==
    IF UserIndices(players_list, username) = {} THEN None
    ELSE Get(players_list[Max(UserIndices(players_list, username))], "uuid", None)

\* self.winner: the nickname of the first player whose uuid is the result's
Winner(players, winner_uuid) ==
    LET hits == {i \in 1..Len(players) : players[i].uuid = winner_uuid}
    IN  IF Truthy(winner_uuid) /\ hits # {} THEN Some(players[Min(hits)].nickname)
        ELSE None

\* self.is_user_win
IsUserWin(user_uuid, winner_uuid) ==
    IF Truthy(user_uuid) /\ Truthy(winner_uuid) THEN Some(user_uuid = winner_uuid)
    ELSE None

\* a variant of is_draw that also calls a forfeit without winner a draw
IsDrawIgnoringForfeit(user_uuid, winner_uuid, forfeited) ==
    /\ ~(Truthy(user_uuid) /\ Truthy(winner_uuid))
    /\ Truthy(user_uuid) /\ winner_uuid = None

\* self.is_draw
IsDraw(user_uuid, winner_uuid, forfeited) ==
    /\ ~(Truthy(user_uuid) /\ Truthy(winner_uuid))
    /\ Truthy(user_uuid) /\ winner_uuid = None /\ ~forfeited

\* a variant of the completion table that counts a forfeit win as a completion
CompletionForfeitWinCompleted(is_user_win, is_draw, player_count, forfeited, winner_time) ==
    CASE is_user_win = Some(TRUE) -> <<winner_time, TRUE>>
      [] is_user_win = Some(FALSE) -> <<None, FALSE>>
      [] is_draw -> <<winner_time, FALSE>>
      [] player_count = 1 /\ ~forfeited -> <<winner_time, TRUE>>
      [] player_count = 1 /\ forfeited -> <<winner_time, FALSE>>
      [] OTHER -> <<None, FALSE>>

\* <<self.match_time, self.user_completed>>
Completion(is_user_win, is_draw, player_count, forfeited, winner_time) ==
    IF is_user_win = Some(TRUE) /\ ~forfeited THEN <<winner_time, TRUE>>
    ELSE IF is_user_win = Some(TRUE) /\ forfeited THEN <<winner_time, FALSE>>
    ELSE IF is_user_win = Some(FALSE) THEN <<None, FALSE>>
    ELSE IF is_draw THEN <<winner_time, FALSE>>
    ELSE IF player_count = 1 /\ ~forfeited THEN <<winner_time, TRUE>>
    ELSE IF player_count = 1 /\ forfeited THEN <<winner_time, FALSE>>
    ELSE <<None, FALSE>>

\* Match(d, username).__dict__
MatchInit(d, username) ==
    LET players_list == Get(d, "players", <<>>)
        players == [i \in 1..Len(players_list) |-> PlayerSummary(players_list[i])]
        user_uuid == UserUuid(players_list, username)
        result == Get(d, "result", None)
        winner_uuid == IF result = None THEN None ELSE Get(Val(result), "uuid", None)
        winner_time == IF result = None THEN None ELSE Get(Val(result), "time", None)
        is_user_win == IsUserWin(user_uuid, winner_uuid)
        is_draw == IsDraw(user_uuid, winner_uuid, d.forfeited)
        done == Completion(is_user_win, is_draw, Len(players_list), d.forfeited,
                           winner_time)
    IN  [id |-> d.id,
         analyzed_username |-> username,
         date |-> d.date,
         datetime_obj |-> FromTimestamp(d.date),
         category |-> d.category,
         forfeited |-> d.forfeited,
         seed_type |-> Get(d, "seedType", "unknown"),
         season |-> d.season,
         match_type |-> Get(d, "type", 1),
         player_count |-> Len(players_list),
         players |-> players,
         winner |-> Winner(players, winner_uuid),
         winner_time |-> winner_time,
         user_uuid |-> user_uuid,
         is_user_win |-> is_user_win,
         is_draw |-> is_draw,
         match_time |-> done[1],
         user_completed |-> done[2]]

(***************************************************************************)
(* The match cache file and its two readers.                               *)
(***************************************************************************)
\* json.dump(match.__dict__, default=str): the datetime becomes its string
MatchDict(m) == [m EXCEPT !.datetime_obj = DatetimeStr(m.datetime_obj)]

\* the cache-hit path of fetch_all_matches, for one row of the file
CacheHitLoad(row, username) ==
    IF "analyzed_username" \in DOMAIN row
    THEN IF row.datetime_obj.kind = "str"
         THEN [row EXCEPT !.datetime_obj = FromIsoFormat(row.datetime_obj)]
         ELSE row
    ELSE MatchInit(row, username)

\* the merge-with-existing step of _fetch_incremental_data, for one row
MergeLoad(row, username) ==
    IF "id" \in DOMAIN row
    THEN MatchInit(row, username)
    ELSE MatchInit(row, username)

(***************************************************************************)
(* SpecMatch: a payload is constructed into a Match, written to the cache  *)
(* in one of its two shapes and read back by one of the two readers.       *)
(***************************************************************************)
MatchIdle ==
    /\ data \in RawRows
    /\ analyzed_username \in Usernames
    /\ match = None
    /\ cache_row = None
    /\ decoded = None
    /\ mpc = "start"

\* the Match variables while another specification runs
MatchIdleFixed ==
    /\ data = CHOOSE d \in RawRows : d.players = <<>> /\ d.result = None /\ ~d.forfeited
    /\ analyzed_username = None
    /\ match = None
    /\ cache_row = None
    /\ decoded = None
    /\ mpc = "start"

\* Match(data, analyzed_username)
Construct ==
    /\ mpc = "start"
    /\ match' = Some(MatchInit(data, analyzed_username))
    /\ mpc' = "built"
    /\ UNCHANGED <<data, analyzed_username, cache_row, decoded, fetchVars, rlVars, filterVars, paceVars, detailVars>>

\* fetch_all_matches writes the collection as Match field-maps
SaveMatchCache ==
    /\ mpc = "built"
    /\ cache_row' = Some(MatchDict(Val(match)))
    /\ mpc' = "cached"
    /\ UNCHANGED <<data, analyzed_username, match, decoded, fetchVars, rlVars, filterVars, paceVars, detailVars>>

\* a cache file in the old shape holds the raw API row
SaveRawCache ==
    /\ mpc = "built"
    /\ cache_row' = Some(data)
    /\ mpc' = "cached"
    /\ UNCHANGED <<data, analyzed_username, match, decoded, fetchVars, rlVars, filterVars, paceVars, detailVars>>

\* fetch_all_matches(use_cache=True) with the cache file present
ReadCacheHit ==
    /\ mpc = "cached"
    /\ decoded' = Some(CacheHitLoad(Val(cache_row), analyzed_username))
    /\ mpc' = "hit"
    /\ UNCHANGED <<data, analyzed_username, match, cache_row, fetchVars, rlVars, filterVars, paceVars, detailVars>>

\* _fetch_incremental_data combining the new rows with the cached ones
ReadMerge ==
    /\ mpc = "cached"
    /\ decoded' = Some(MergeLoad(Val(cache_row), analyzed_username))
    /\ mpc' = "merged"
    /\ UNCHANGED <<data, analyzed_username, match, cache_row, fetchVars, rlVars, filterVars, paceVars, detailVars>>

NextMatch == Construct \/ SaveMatchCache \/ SaveRawCache \/ ReadCacheHit \/ ReadMerge


(***************************************************************************)
(* The fetch pipeline of MCSRAnalyzer.  A match is its id; the server      *)
(* holds the ids 1..Len(server), newest last, and answers every request    *)
(* with a status of its choice.  One step of the model is one HTTP request *)
(* together with the code that runs up to the next request.  The pacing    *)
(* calls of the loops (can_make_request, get_wait_time, record_request)    *)
(* only decide how long a loop sleeps before a request, never which        *)
(* request is sent; they are the subject of SpecRL.                        *)
(***************************************************************************)
SeasonLo == 3           \* range(3, 15): the first season probed
SeasonHi == 4           \* the last season probed (14 in the source)
MaxServer == 3          \* matches on the server
BatchSeason == 2        \* batch_size of _fetch_season_data (100)
BatchCurrent == 1       \* batch_size of _fetch_current_season_only (50)
CapFull == 3            \* the 5000 of a full refresh
CapIncr == 2            \* the 1000 of an incremental refresh
MaxMatchesArg == 1      \* the largest max_matches argument tried

Statuses == {"200", "429", "500", "RequestException"}
Range(f) == {f[i] : i \in DOMAIN f}

\* the ids of a season, and the n largest ids of a set, newest first
SeasonIds(srv, season) == {i \in 1..Len(srv) : srv[i] = season}
RECURSIVE TopDesc(_, _)
TopDesc(S, n) ==
    IF S = {} \/ n <= 0 THEN <<>>
    ELSE <<Max(S)>> \o TopDesc(S \ {Max(S)}, n - 1)

\* the rows of a 200 answer of GET /users/{username}/matches: the newest
\* `count` matches of the season (the current season when none is given) that
\* are older than `before`
ServerPage(srv, season, count, before) ==
    LET s == IF season = None THEN SeasonHi ELSE Val(season)
    IN  TopDesc({i \in SeasonIds(srv, s) : before = None \/ i < Val(before)}, count)

\* sorted(rows, key=id, reverse=True)
SortDesc(rows) == TopDesc(Range(rows), Len(rows))

(***************************************************************************)
(* The match cache file: absent, not parseable as JSON, or a list of rows  *)
(* in one of the two shapes.  A damaged list has a row that lacks a key    *)
(* its decoder reads: 'category' in a raw row, 'datetime_obj' in a map.    *)
(***************************************************************************)
NoCache == [state |-> "absent", shape |-> "map", damaged |-> FALSE, rows |-> <<>>]
BadCache == [state |-> "unparseable", shape |-> "map", damaged |-> FALSE, rows |-> <<>>]
CacheIds(c) == IF c.state = "ok" THEN Range(c.rows) ELSE {}
\* the cache-hit path decodes every row without raising
HitDecodes(c) == c.state = "ok" /\ ~c.damaged
\* Match(data, username) succeeds on every row (the merge step)
MergeDecodes(c) == c.state = "ok" /\ ~(c.damaged /\ c.shape = "raw")

(***************************************************************************)
(* The analyzer.                                                           *)
(***************************************************************************)
NoLoop == [season |-> None, cap |-> 0, batch |-> 0, rows |-> <<>>, before_id |-> None]
NoLoopRet == [ret |-> <<>>, before |-> <<>>, status |-> "none"]
NoReq == [kind |-> "none", season |-> None, count |-> 0, before |-> None,
          status |-> "none"]

AnIdle ==
    [pc |-> "idle", use_cache |-> TRUE, max_matches |-> None, mode |-> "none",
     existing_match_ids |-> {}, probe |-> SeasonLo, seasons |-> <<>>, todo |-> <<>>,
     loop |-> NoLoop, all_new_matches |-> <<>>, total_fetched |-> 0,
     matches |-> <<>>, cache_before |-> NoCache, server_before |-> <<>>,
     loop_ret |-> NoLoopRet]

\* the locals of a page loop at its start
StartLoop(season, cap, batch) ==
    [season |-> season, cap |-> cap, batch |-> batch, rows |-> <<>>,
     before_id |-> None]

\* max_matches or dflt
OrDefault(max_matches, dflt) ==
    IF max_matches # None /\ Val(max_matches) # 0 THEN Val(max_matches) ELSE dflt

\* the for loop of _fetch_incremental_data over the sorted rows of a season
RECURSIVE IncrScan(_, _, _, _)
IncrScan(rows, existing, total, max_matches) ==
    IF rows = <<>> THEN [new |-> <<>>, total |-> total, found |-> FALSE]
    ELSE IF Head(rows) \in existing
    THEN [new |-> <<>>, total |-> total, found |-> TRUE]
    ELSE IF max_matches # None /\ Val(max_matches) # 0 /\ total + 1 >= Val(max_matches)
    THEN [new |-> <<Head(rows)>>, total |-> total + 1, found |-> TRUE]
    ELSE LET r == IncrScan(Tail(rows), existing, total + 1, max_matches)
         IN  [new |-> <<Head(rows)>> \o r.new, total |-> r.total, found |-> r.found]

\* the end of fetch_all_matches: self.matches is set and returned; the locals
\* of the call are gone
Returned(a, result, mode) ==
    [AnIdle EXCEPT !.pc = "returned", !.use_cache = a.use_cache,
                   !.max_matches = a.max_matches, !.mode = mode,
                   !.matches = result, !.cache_before = a.cache_before,
                   !.server_before = a.server_before, !.loop_ret = a.loop_ret]

\* "Combine with existing matches" of _fetch_incremental_data
MergedWithExisting(new, existing, c) ==
    IF existing # {} /\ MergeDecodes(c) THEN new \o c.rows ELSE new

\* what follows the return of a page loop with `rows`, up to the next request
AfterLoop(a, rows, c) ==
    IF a.loop.season = None
    THEN \* _fetch_current_season_only: its result is the collection
         Returned(a, rows, a.mode)
    ELSE IF a.mode = "full"
    THEN LET all == a.all_new_matches \o rows
         IN  IF a.todo = <<>> THEN Returned(a, all, a.mode)
             ELSE [a EXCEPT !.all_new_matches = all,
                            !.loop = StartLoop(Some(Head(a.todo)), CapFull, BatchSeason),
                            !.todo = Tail(a.todo)]
    ELSE LET scan == IncrScan(SortDesc(rows), a.existing_match_ids, a.total_fetched,
                              a.max_matches)
             all == a.all_new_matches \o scan.new
         IN  IF scan.found \/ a.todo = <<>>
             THEN Returned(a, MergedWithExisting(all, a.existing_match_ids, c), a.mode)
             ELSE [a EXCEPT !.all_new_matches = all,
                            !.total_fetched = scan.total,
                            !.loop = StartLoop(Some(Head(a.todo)), CapIncr, BatchSeason),
                            !.todo = Tail(a.todo)]

\* what follows _discover_seasons, up to the first page request
AfterDiscovery(a, seasons) ==
    IF seasons = <<>>
    THEN [a EXCEPT !.pc = "page", !.seasons = seasons,
                   !.loop = StartLoop(None,
                               OrDefault(a.max_matches,
                                         IF a.mode = "full" THEN CapFull ELSE CapIncr),
                               BatchCurrent)]
    ELSE IF a.mode = "full"
    THEN [a EXCEPT !.pc = "page", !.seasons = seasons, !.todo = Tail(seasons),
                   !.loop = StartLoop(Some(Head(seasons)), CapFull, BatchSeason)]
    ELSE LET sorted == SortDesc(seasons)
         IN  [a EXCEPT !.pc = "page", !.seasons = sorted, !.todo = Tail(sorted),
                       !.loop = StartLoop(Some(Head(sorted)), CapIncr, BatchSeason)]

\* json.dump([match.__dict__ ...]) once the collection is complete
WrittenCache(result) ==
    [state |-> "ok", shape |-> "map", damaged |-> FALSE, rows |-> result]

\* the branches of the page loops on the answer to a request
PageOutcome(status) ==
    CASE status = "200" -> "extend"
      [] status = "429" -> "retry"
      [] OTHER -> "break"

\* a variant of the loop's return that hands back nothing after an error
LoopReturnEmptyOnError(rows, cap, status) ==
    IF status = "200" THEN SubSeq(rows, 1, Min({cap, Len(rows)})) ELSE <<>>

\* return matches[:max_matches]
LoopReturn(rows, cap, status) == SubSeq(rows, 1, Min({cap, Len(rows)}))

FetchIdle ==
    /\ server = <<>>
    /\ cache = NoCache
    /\ an = AnIdle
    /\ req = NoReq
    /\ prev = NoReq

\* the servers and cache files a first call can find
NonDecreasing(srv) == \A i \in 1..(Len(srv) - 1) : srv[i] <= srv[i + 1]
Servers == {srv \in SeqUpTo(SeasonLo..SeasonHi, MaxServer) : NonDecreasing(srv)}
CachesOf(srv) ==
    {NoCache, BadCache} \cup
    {[state |-> "ok", shape |-> sh, damaged |-> dm, rows |-> TopDesc(1..k, k)] :
        sh \in {"raw", "map"}, dm \in BOOLEAN, k \in 0..Len(srv)}

FetchStart ==
    /\ server \in Servers
    /\ cache \in {c \in CachesOf(server) : c.damaged => c.rows # <<>>}
    /\ an = AnIdle
    /\ req = NoReq
    /\ prev = NoReq

\* fetch_all_matches(use_cache, max_matches), up to its first request
FetchAllMatches(uc, mm) ==
    /\ an.pc \in {"idle", "returned"}
    /\ LET a == [AnIdle EXCEPT !.use_cache = uc, !.max_matches = mm,
                               !.cache_before = cache,
                               !.server_before = server]
       IN  IF uc /\ cache.state # "absent" /\ HitDecodes(cache)
           THEN \* the cache-hit path
                an' = Returned(a, cache.rows, "hit")
           ELSE IF ~uc
           THEN an' = [a EXCEPT !.pc = "discover", !.mode = "full"]
           ELSE an' = [a EXCEPT !.pc = "discover", !.mode = "incr",
                                !.existing_match_ids = CacheIds(cache)]
    /\ req' = NoReq
    /\ prev' = NoReq
    /\ UNCHANGED <<server, cache, matchVars, rlVars, filterVars, paceVars, detailVars>>

\* one probe of _discover_seasons
Probe(status) ==
    /\ an.pc = "discover"
    /\ LET has == status = "200" /\ ServerPage(server, Some(an.probe), 1, None) # <<>>
           seasons == IF has THEN Append(an.seasons, an.probe) ELSE an.seasons
       IN  IF an.probe < SeasonHi
           THEN an' = [an EXCEPT !.probe = an.probe + 1, !.seasons = seasons]
           ELSE an' = AfterDiscovery(an, seasons)
    /\ prev' = req
    /\ req' = [kind |-> "probe", season |-> Some(an.probe), count |-> 1,
               before |-> None, status |-> status]
    /\ UNCHANGED <<server, cache, matchVars, rlVars, filterVars, paceVars, detailVars>>

\* what one request of a page loop leaves behind, the answer being `status`:
\* the analyzer, and the collection to write to the cache file if the call ended
PageStep(a0, srv, c, status) ==
    LET l == a0.loop
        count == Min({l.batch, l.cap - Len(l.rows)})
        outcome == PageOutcome(status)
    IN  IF outcome = "retry"
        THEN [an |-> [a0 EXCEPT !.pc = "backoff"], ended |-> FALSE]
        ELSE Val({
            IF outcome = "extend" /\ batch # <<>> /\ Len(l.rows \o batch) < l.cap
            THEN [an |-> [a0 EXCEPT !.loop.rows = l.rows \o batch,
                                    !.loop.before_id = Some(batch[Len(batch)])],
                  ended |-> FALSE]
            ELSE Val({
                [an |-> AfterLoop([a0 EXCEPT !.loop_ret = [ret |-> ret, before |-> l.rows,
                                                          status |-> status]],
                                  ret, c),
                 ended |-> TRUE] :
                ret \in {LoopReturn(IF outcome = "extend" THEN l.rows \o batch ELSE l.rows,
                                    l.cap, status)}}) :
            batch \in {ServerPage(srv, l.season, count, l.before_id)}})

\* one request of _fetch_season_data or _fetch_current_season_only
Page(status) ==
    /\ an.pc = "page"
    /\ \E step \in {PageStep(an, server, cache, status)} :
          /\ an' = step.an
          /\ cache' = IF step.ended /\ step.an.pc = "returned"
                      THEN WrittenCache(step.an.matches) ELSE cache
    /\ prev' = req
    /\ req' = [kind |-> "page", season |-> an.loop.season,
               count |-> Min({an.loop.batch, an.loop.cap - Len(an.loop.rows)}),
               before |-> an.loop.before_id, status |-> status]
    /\ UNCHANGED <<server, matchVars, rlVars, filterVars, paceVars, detailVars>>

\* time.sleep(10); continue
Backoff ==
    /\ an.pc = "backoff"
    /\ an' = [an EXCEPT !.pc = "page"]
    /\ UNCHANGED <<server, cache, req, prev, matchVars, rlVars, filterVars, paceVars, detailVars>>

\* the user plays another match
NewMatch(season) ==
    /\ an.pc \in {"idle", "returned"}
    /\ Len(server) < MaxServer
    /\ server # <<>> => season >= server[Len(server)]
    /\ server' = Append(server, season)
    /\ UNCHANGED <<cache, an, req, prev, matchVars, rlVars, filterVars, paceVars, detailVars>>

MaxMatchesArgs == {None} \cup {Some(n) : n \in 1..MaxMatchesArg}

NextFetch ==
    \/ \E uc \in BOOLEAN, mm \in MaxMatchesArgs : FetchAllMatches(uc, mm)
    \/ \E status \in Statuses : Probe(status)
    \/ \E status \in Statuses : Page(status)
    \/ Backoff
    \/ \E season \in SeasonLo..SeasonHi : NewMatch(season)

(***************************************************************************)
(* RateLimitTracker.  The constructor's max_requests and window_seconds    *)
(* (500 requests, 600 seconds by default) are scaled down, and the clock   *)
(* advances in whole seconds up to MaxClock.                               *)
(***************************************************************************)
max_requests == 2
window_seconds == 2
MaxClock == 6
MaxCalls == 4

\* a variant of the eviction loop that also drops a timestamp exactly
\* window_seconds old
EvictAtBoundary(reqs, t) ==
    SelectSeq(reqs, LAMBDA ts : ts > t - window_seconds)

\* while self.requests and self.requests[0] < now - self.window_seconds:
\*     self.requests.popleft()
RECURSIVE Evict(_, _)
Evict(reqs, t) ==
    IF reqs # <<>> /\ Head(reqs) < t - window_seconds THEN Evict(Tail(reqs), t)
    ELSE reqs

\* the value can_make_request() returns, on the ledger it leaves
CanProceed(reqs) == Len(reqs) < max_requests

\* the value get_wait_time() returns at time t, on the ledger that its call of
\* can_make_request() leaves
WaitTime(reqs, t) ==
    IF CanProceed(reqs) THEN 0
    ELSE IF reqs # <<>> /\ Head(reqs) > t - window_seconds
         THEN Head(reqs) - (t - window_seconds)
         ELSE 0

\* the state file: absent, not parseable as JSON ("invalid"), a JSON value
\* that is not an object ("nodict"), or an object whose request_timestamps
\* list holds numbers Some(t) and entries that are no numbers (None)
NoFile == [state |-> "absent", request_timestamps |-> <<>>]

\* for timestamp in data.get('request_timestamps', []):
\*     if timestamp > window_start: rate_limiter.requests.append(timestamp)
\* comparing an entry that is no number raises, which ends the loop and leaves
\* what was appended before it
RECURSIVE LoadEntries(_, _, _)
LoadEntries(entries, ledger, t) ==
    IF entries = <<>> THEN ledger
    ELSE IF Head(entries) = None THEN ledger
    ELSE IF Val(Head(entries)) > t - window_seconds
         THEN LoadEntries(Tail(entries), Append(ledger, Val(Head(entries))), t)
         ELSE LoadEntries(Tail(entries), ledger, t)

\* the ledger after load_rate_limit_state(rate_limiter, filename)
LoadRateLimitState(ledger, file, t) ==
    IF file.state = "ok" THEN LoadEntries(file.request_timestamps, ledger, t)
    ELSE ledger

\* the file after save_rate_limit_state(rate_limiter, filename)
SaveRateLimitState(ledger, t) ==
    [state |-> "ok",
     request_timestamps |-> [i \in 1..Len(Evict(ledger, t)) |-> Some(Evict(ledger, t)[i])]]

RLIdle ==
    /\ requests = <<>>
    /\ now = 0
    /\ calls = <<>>
    /\ rl_ret = [op |-> "init", ret |-> TRUE, wait |-> 0]
    /\ rl_file = NoFile

\* the clock advances by one second
Tick ==
    /\ now < MaxClock
    /\ now' = now + 1
    /\ rl_ret' = [op |-> "tick", ret |-> TRUE, wait |-> 0]
    /\ UNCHANGED <<requests, calls, rl_file, matchVars, fetchVars, filterVars, paceVars, detailVars>>

\* RateLimitTracker.can_make_request
CanMakeRequest ==
    /\ requests' = Evict(requests, now)
    /\ rl_ret' = [op |-> "can_make_request", ret |-> CanProceed(requests'), wait |-> 0]
    /\ UNCHANGED <<now, calls, rl_file, matchVars, fetchVars, filterVars, paceVars, detailVars>>

\* RateLimitTracker.record_request
RecordRequest ==
    /\ Len(calls) < MaxCalls
    /\ requests' = Append(requests, now)
    /\ calls' = Append(calls, now)
    /\ rl_ret' = [op |-> "record_request", ret |-> TRUE, wait |-> 0]
    /\ UNCHANGED <<now, rl_file, matchVars, fetchVars, filterVars, paceVars, detailVars>>

\* RateLimitTracker.get_wait_time: ret is what its call of can_make_request()
\* returned, wait the value it returns
GetWaitTime ==
    /\ requests' = Evict(requests, now)
    /\ rl_ret' = [op |-> "get_wait_time", ret |-> CanProceed(requests'),
                  wait |-> WaitTime(requests', now)]
    /\ UNCHANGED <<now, calls, rl_file, matchVars, fetchVars, filterVars, paceVars, detailVars>>

NextRL == Tick \/ CanMakeRequest \/ RecordRequest \/ GetWaitTime

\* save_rate_limit_state at the end of a fetch: the ledger is pruned, then
\* written
SaveState ==
    /\ requests' = Evict(requests, now)
    /\ rl_file' = SaveRateLimitState(requests, now)
    /\ rl_ret' = [op |-> "save", ret |-> TRUE, wait |-> 0]
    /\ UNCHANGED <<now, calls, matchVars, fetchVars, filterVars, paceVars, detailVars>>

\* the process restarts: MCSRAnalyzer.__init__ makes a new RateLimitTracker
\* and loads the state file into it
Restart ==
    /\ requests' = LoadRateLimitState(<<>>, rl_file, now)
    /\ rl_ret' = [op |-> "load", ret |-> TRUE, wait |-> 0]
    /\ UNCHANGED <<now, calls, rl_file, matchVars, fetchVars, filterVars, paceVars, detailVars>>

\* the state file is deleted, truncated, or replaced by JSON of another shape
DamageFile(state) ==
    /\ rl_file.state = "ok"
    /\ rl_file' = [state |-> state, request_timestamps |-> <<>>]
    /\ rl_ret' = [op |-> "damage", ret |-> TRUE, wait |-> 0]
    /\ UNCHANGED <<requests, now, calls, matchVars, fetchVars, filterVars, paceVars, detailVars>>

\* one entry of the persisted list is replaced by a value that is no number
DamageEntry(i) ==
    /\ rl_file.state = "ok"
    /\ i \in 1..Len(rl_file.request_timestamps)
    /\ rl_file.request_timestamps[i] # None
    /\ rl_file' = [rl_file EXCEPT !.request_timestamps[i] = None]
    /\ rl_ret' = [op |-> "damage", ret |-> TRUE, wait |-> 0]
    /\ UNCHANGED <<requests, now, calls, matchVars, fetchVars, filterVars, paceVars, detailVars>>

NextRLState ==
    \/ Tick
    \/ RecordRequest
    \/ SaveState
    \/ Restart
    \/ \E state \in {"absent", "invalid", "nodict"} : DamageFile(state)
    \/ \E i \in 1..MaxCalls : DamageEntry(i)

(***************************************************************************)
(* The pacing of the fetch loops.  Each loop (_discover_seasons,           *)
(* _fetch_season_data, _fetch_current_season_only, fetch_segment_data)     *)
(* runs, before a request, can_make_request() and, when it is false,       *)
(* get_wait_time() and a sleep; then record_request() and requests.get.    *)
(* The 10 seconds of the cool-down after a 429 are scaled to               *)
(* BackoffSeconds; the 0.1 s delays take no whole second.                  *)
(***************************************************************************)
MaxIter == 4            \* the requests a loop may need: seasons, pages, matches
BackoffSeconds == 1     \* time.sleep(10)

Loops == {"_discover_seasons", "_fetch_season_data", "_fetch_current_season_only",
          "fetch_segment_data"}
PageLoops == {"_fetch_season_data", "_fetch_current_season_only"}

NoPace ==
    [loop |-> "none", pc |-> "idle", left |-> 0, checked |-> FALSE, can |-> TRUE,
     wake |-> 0, sent |-> 0, calls_before |-> 0]

PaceIdle == pace = NoPace

\* what a loop does with the answer to a request: `more` tells whether a 200
\* answer of a page loop holds rows; left counts the iterations still open
AfterAnswer(loop, status, more, left) ==
    IF loop \in PageLoops
    THEN CASE PageOutcome(status) = "extend" ->
                  IF more /\ left > 1 THEN [pc |-> "check", left |-> left - 1]
                  ELSE [pc |-> "done", left |-> 0]
           [] PageOutcome(status) = "retry" -> [pc |-> "backoff", left |-> left]
           [] OTHER -> [pc |-> "done", left |-> 0]
    ELSE IF loop = "fetch_segment_data" /\ status = "429"
    THEN [pc |-> "backoff", left |-> left - 1]
    ELSE [pc |-> IF left > 1 THEN "check" ELSE "done", left |-> left - 1]

\* a variant of the cool-down that sends the next request without a check
AfterBackoffUnchecked(left) == IF left > 0 THEN "request" ELSE "done"

\* after time.sleep(10): continue, to the top of the loop
AfterBackoff(left) == IF left > 0 THEN "check" ELSE "done"

\* a fetch loop starts
StartPace(loop) ==
    /\ pace.pc = "idle"
    /\ pace' = [NoPace EXCEPT !.loop = loop, !.pc = "check", !.left = MaxIter,
                              !.calls_before = Len(calls)]
    /\ UNCHANGED <<rlVars, matchVars, fetchVars, filterVars, detailVars>>

\* if not self.rate_limiter.can_make_request():
PaceCheck ==
    /\ pace.pc = "check"
    /\ requests' = Evict(requests, now)
    /\ pace' = [pace EXCEPT !.checked = TRUE, !.can = CanProceed(requests'),
                            !.wake = now,
                            !.pc = IF CanProceed(requests') THEN "request" ELSE "wait"]
    /\ rl_ret' = [op |-> "can_make_request", ret |-> CanProceed(requests'), wait |-> 0]
    /\ UNCHANGED <<now, calls, rl_file, matchVars, fetchVars, filterVars, detailVars>>

\* wait_time = self.rate_limiter.get_wait_time(); if wait_time > 0: time.sleep
PaceWait ==
    /\ pace.pc = "wait"
    /\ requests' = Evict(requests, now)
    /\ pace' = [pace EXCEPT !.wake = now + WaitTime(requests', now),
                            !.pc = IF WaitTime(requests', now) > 0 THEN "sleep"
                                   ELSE "request"]
    /\ rl_ret' = [op |-> "get_wait_time", ret |-> CanProceed(requests'),
                  wait |-> WaitTime(requests', now)]
    /\ UNCHANGED <<now, calls, rl_file, matchVars, fetchVars, filterVars, detailVars>>

\* time.sleep(wait_time) returns: at least wait_time has passed
PaceWake ==
    /\ pace.pc = "sleep"
    /\ now >= pace.wake
    /\ pace' = [pace EXCEPT !.pc = "request"]
    /\ UNCHANGED <<rlVars, matchVars, fetchVars, filterVars, detailVars>>

\* self.rate_limiter.record_request(); response = requests.get(...), and
\* what the loop does with the answer
PaceRequest(status, more) ==
    /\ pace.pc = "request"
    /\ requests' = Append(requests, now)
    /\ calls' = Append(calls, now)
    /\ \E next \in {AfterAnswer(pace.loop, status, more, pace.left)} :
          pace' = [pace EXCEPT !.pc = next.pc, !.left = next.left, !.checked = FALSE,
                               !.sent = pace.sent + 1,
                               !.wake = IF next.pc = "backoff" THEN now + BackoffSeconds
                                        ELSE pace.wake]
    /\ rl_ret' = [op |-> "record_request", ret |-> TRUE, wait |-> 0]
    /\ UNCHANGED <<now, rl_file, matchVars, fetchVars, filterVars, detailVars>>

\* time.sleep(10) returns
PaceBackoff ==
    /\ pace.pc = "backoff"
    /\ now >= pace.wake
    /\ pace' = [pace EXCEPT !.pc = AfterBackoff(pace.left)]
    /\ UNCHANGED <<rlVars, matchVars, fetchVars, filterVars, detailVars>>

NextPace ==
    \/ Tick
    \/ \E loop \in Loops : StartPace(loop)
    \/ PaceCheck
    \/ PaceWait
    \/ PaceWake
    \/ \E status \in Statuses, more \in BOOLEAN : PaceRequest(status, more)
    \/ PaceBackoff

DetailIdle ==
    /\ analyzers = <<>>
    /\ ui = 0
    /\ threads = <<>>
    /\ segment_file = <<>>

(***************************************************************************)
(* filter_matches.  A Python list is a record of the object it is (obj)    *)
(* and its items, so that sorting a list in place can be told from sorting *)
(* a copy: self.matches is the object "self.matches", every copy and every *)
(* list comprehension is a new object.                                     *)
(***************************************************************************)
MaxMatches == 2

\* match.segments = segments; match.has_detailed_data = bool(segments), on top
\* of the fields Match.__init__ sets (segments = {}, has_detailed_data = False)
WithSegments(m, segments) ==
    m @@ [segments |-> segments, has_detailed_data |-> DOMAIN segments # {}]

Bob == [nickname |-> "Bob", uuid |-> Some("u1"), eloRate |-> Some(1500), eloChange |-> Some(12)]
BobNoUuid == [Bob EXCEPT !.uuid = None]
Eve == [nickname |-> "eve", uuid |-> Some("u2"), eloRate |-> Some(1400), eloChange |-> Some(-12)]

RawRow(id, date, season, type, seed, forfeited, players, result) ==
    [id |-> id, date |-> date, category |-> "ANY", forfeited |-> forfeited,
     seedType |-> seed, season |-> season, type |-> type, players |-> players,
     result |-> result]
RawResult(uuid, time) == Some([uuid |-> uuid, time |-> time])

\* the segments of a match: absolute_time and split_time of each
Seg(absolute_time, split_time) ==
    [absolute_time |-> absolute_time, split_time |-> split_time]

\* the matches of the analyzed user "BOB" a collection is drawn from: two wins
\* with detail data, a loss, a draw in a private room and a forfeit win with
\* detail data, a solo run of another player and a match in which the user
\* has no uuid
SampleMatches ==
    LET user == Some("BOB")
    IN  { WithSegments(MatchInit(RawRow(1, 1, 3, 2, "village", FALSE, <<Bob, Eve>>,
                                        RawResult(Some("u1"), Some(500))), user),
                       [s \in {"nether_enter"} |-> [absolute_time |-> 100, split_time |-> 100]]),
          WithSegments(MatchInit(RawRow(2, 2, 4, 2, "shipwreck", FALSE, <<Eve, Bob>>,
                                        RawResult(Some("u1"), Some(700))), user),
                       [nether_enter |-> Seg(120, 120), game_end |-> Seg(700, 580)]),
          WithSegments(MatchInit(RawRow(3, 2, 4, 2, "village", FALSE, <<Bob, Eve>>,
                                        RawResult(Some("u2"), Some(400))), user),
                       [nether_enter |-> Seg(130, 130), bastion_enter |-> Seg(220, 90)]),
          WithSegments(MatchInit(RawRow(4, 3, 4, 3, "village", FALSE, <<Bob, Eve>>,
                                        RawResult(None, Some(0))), user),
                       [nether_enter |-> Seg(110, 110), bastion_enter |-> Seg(250, 140)]),
          WithSegments(MatchInit(RawRow(5, 1, 3, 2, "ruined_portal", TRUE, <<Bob, Eve>>,
                                        RawResult(Some("u1"), Some(300))), user),
                       [nether_enter |-> Seg(90, 90), game_end |-> Seg(300, 210)]),
          WithSegments(MatchInit(RawRow(6, 3, 3, 1, "village", FALSE, <<Eve>>,
                                        RawResult(Some("u2"), Some(600))), user), <<>>),
          WithSegments(MatchInit(RawRow(7, 4, 4, 2, "village", FALSE, <<BobNoUuid, Eve>>,
                                        RawResult(Some("u2"), Some(400))), user), <<>>) }

\* the collections: up to MaxMatches matches with distinct ids, in any order
Collections ==
    {c \in SeqUpTo(SampleMatches, MaxMatches) :
        \A i, j \in 1..Len(c) : i # j => c[i].id # c[j].id}

\* the defaults of filter_matches' keyword arguments
DefaultParams ==
    [completed_only |-> FALSE, user_completed |-> None, include_draws |-> TRUE,
     include_forfeits |-> TRUE, include_wins |-> TRUE, include_losses |-> TRUE,
     require_time |-> FALSE, min_time_ms |-> None, max_time_ms |-> None,
     include_private_rooms |-> TRUE, match_types |-> None, max_player_count |-> None,
     seasons |-> None, seed_types |-> None, has_detailed_data |-> None,
     require_user_identified |-> FALSE, date_from |-> None, date_to |-> None,
     sort_by |-> "date", sort_descending |-> TRUE]

\* p, and p with one predicate of a stage set
CompletionSettings(p) ==
    {p, [p EXCEPT !.completed_only = TRUE],
     [p EXCEPT !.user_completed = Some(TRUE)], [p EXCEPT !.user_completed = Some(FALSE)],
     [p EXCEPT !.include_draws = FALSE], [p EXCEPT !.include_forfeits = FALSE],
     [p EXCEPT !.include_wins = FALSE], [p EXCEPT !.include_losses = FALSE]}
TimeSettings(p) ==
    {p, [p EXCEPT !.require_time = TRUE], [p EXCEPT !.min_time_ms = Some(500)],
     [p EXCEPT !.max_time_ms = Some(500)]}
MatchTypeSettings(p) ==
    {p, [p EXCEPT !.include_private_rooms = FALSE], [p EXCEPT !.match_types = Some({2})],
     [p EXCEPT !.max_player_count = Some(1)],
     [p EXCEPT !.require_user_identified = TRUE],
     [p EXCEPT !.has_detailed_data = Some(TRUE)],
     [p EXCEPT !.has_detailed_data = Some(FALSE)]}
CategoricalSettings(p) ==
    {p, [p EXCEPT !.seasons = Some({4})], [p EXCEPT !.seed_types = Some({"village"})]}
DateSettings(p) ==
    {p, [p EXCEPT !.date_from = Some(FromTimestamp(2))],
     [p EXCEPT !.date_to = Some(FromTimestamp(2))]}
SortSettings(p) ==
    {[p EXCEPT !.sort_by = by, !.sort_descending = desc] :
        by \in {"date", "time", "season", "elo"}, desc \in BOOLEAN}

\* the argument settings of the model: one setting of each of the completion,
\* time and match-type stages together, one of each of the match-type,
\* categorical and date stages together (both under the default sort), and
\* every sort with at most one predicate set
PredicateSettings ==
    UNION {UNION {MatchTypeSettings(m) : m \in TimeSettings(k)} :
        k \in CompletionSettings(DefaultParams)}
    \cup UNION {UNION {DateSettings(c) : c \in CategoricalSettings(t)} :
        t \in MatchTypeSettings(DefaultParams)}
OnePredicateSettings ==
    CompletionSettings(DefaultParams) \cup TimeSettings(DefaultParams)
        \cup MatchTypeSettings(DefaultParams) \cup CategoricalSettings(DefaultParams)
        \cup DateSettings(DefaultParams)
FilterParams == PredicateSettings \cup UNION {SortSettings(p) : p \in OnePredicateSettings}

\* a variant of copy() that hands out the list itself
ListAlias(l) == l
\* self.matches.copy()
ListCopy(l) == [obj |-> "copy", items |-> l.items]

\* if <active>: filtered = [m for m in filtered if <Keep(m)>]
Stage(l, active, Keep(_)) ==
    IF active THEN [obj |-> "new", items |-> SelectSeq(l.items, Keep)] ELSE l

ApplyCompletionFilters(l, p) ==
    LET a == Stage(l, p.completed_only,
                   LAMBDA m : /\ m.user_completed /\ m.match_time # None
                              /\ ~m.is_draw /\ ~m.forfeited)
        b == Stage(a, p.user_completed # None,
                   LAMBDA m : m.user_completed = Val(p.user_completed))
        c == Stage(b, ~p.include_draws, LAMBDA m : ~m.is_draw)
        d == Stage(c, ~p.include_forfeits, LAMBDA m : ~m.forfeited)
        e == Stage(d, ~p.include_wins, LAMBDA m : m.is_user_win # Some(TRUE))
    IN  Stage(e, ~p.include_losses, LAMBDA m : m.is_user_win # Some(FALSE))

\* a variant of the time stage whose min_time_ms bound lets null times pass
ApplyTimeFiltersKeepingNull(l, p) ==
    LET a == Stage(l, p.require_time, LAMBDA m : m.match_time # None)
        b == Stage(a, p.min_time_ms # None,
                   LAMBDA m : m.match_time = None \/ Val(m.match_time) >= Val(p.min_time_ms))
    IN  Stage(b, p.max_time_ms # None,
              LAMBDA m : m.match_time # None /\ Val(m.match_time) <= Val(p.max_time_ms))

ApplyTimeFilters(l, p) ==
    LET a == Stage(l, p.require_time, LAMBDA m : m.match_time # None)
        b == Stage(a, p.min_time_ms # None,
                   LAMBDA m : m.match_time # None /\ Val(m.match_time) >= Val(p.min_time_ms))
    IN  Stage(b, p.max_time_ms # None,
              LAMBDA m : m.match_time # None /\ Val(m.match_time) <= Val(p.max_time_ms))

ApplyMatchTypeFilters(l, p) ==
    LET a == Stage(l, ~p.include_private_rooms,
                   LAMBDA m : ~(m.match_type = 3 \/ m.player_count > 2))
        b == Stage(a, p.match_types # None, LAMBDA m : m.match_type \in Val(p.match_types))
        c == Stage(b, p.max_player_count # None,
                   LAMBDA m : m.player_count <= Val(p.max_player_count))
        d == Stage(c, p.require_user_identified,
                   LAMBDA m : m.user_uuid # None \/ m.player_count = 1)
    IN  Stage(d, p.has_detailed_data # None,
              LAMBDA m : m.has_detailed_data = Val(p.has_detailed_data))

ApplyCategoricalFilters(l, p) ==
    LET a == Stage(l, p.seasons # None, LAMBDA m : m.season \in Val(p.seasons))
    IN  Stage(a, p.seed_types # None, LAMBDA m : m.seed_type \in Val(p.seed_types))

ApplyDateFilters(l, p) ==
    LET a == Stage(l, p.date_from # None,
                   LAMBDA m : m.datetime_obj.epoch >= Val(p.date_from).epoch)
    IN  Stage(a, p.date_to # None,
              LAMBDA m : m.datetime_obj.epoch <= Val(p.date_to).epoch)

\* the sort keys of _sort_matches; a null match_time has the key float('inf'),
\* written None
SortKey(m, sort_by) ==
    CASE sort_by = "date" -> Some(m.date)
      [] sort_by = "time" -> m.match_time
      [] sort_by = "season" -> Some(m.season)
KeyLess(a, b) ==
    IF a = None THEN FALSE ELSE IF b = None THEN TRUE ELSE Val(a) < Val(b)

\* a variant of the insertion that puts x before the items of equal key
RECURSIVE InsertBeforeTies(_, _, _, _)
InsertBeforeTies(sorted, x, sort_by, reverse) ==
    IF sorted = <<>> THEN <<x>>
    ELSE IF (IF reverse THEN ~KeyLess(SortKey(x, sort_by), SortKey(Head(sorted), sort_by))
             ELSE ~KeyLess(SortKey(Head(sorted), sort_by), SortKey(x, sort_by)))
         THEN <<x>> \o sorted
         ELSE <<Head(sorted)>> \o InsertBeforeTies(Tail(sorted), x, sort_by, reverse)

\* list.sort(key, reverse): a stable sort, and stable too when reverse is set
\* (items of equal key keep their order in both directions); x goes before the
\* first item that has to come strictly after it
RECURSIVE InsertSorted(_, _, _, _)
InsertSorted(sorted, x, sort_by, reverse) ==
    IF sorted = <<>> THEN <<x>>
    ELSE IF (IF reverse THEN KeyLess(SortKey(Head(sorted), sort_by), SortKey(x, sort_by))
             ELSE KeyLess(SortKey(x, sort_by), SortKey(Head(sorted), sort_by)))
         THEN <<x>> \o sorted
         ELSE <<Head(sorted)>> \o InsertSorted(Tail(sorted), x, sort_by, reverse)
RECURSIVE StableSort(_, _, _)
StableSort(items, sort_by, reverse) ==
    IF items = <<>> THEN <<>>
    ELSE InsertSorted(StableSort(SubSeq(items, 1, Len(items) - 1), sort_by, reverse),
                      items[Len(items)], sort_by, reverse)

\* a variant of _sort_matches that ignores sort_descending
SortMatchesAscending(l, sort_by, sort_descending) ==
    IF sort_by \in {"date", "time", "season"}
    THEN [l EXCEPT !.items = StableSort(l.items, sort_by, FALSE)]
    ELSE l

\* _sort_matches: sorts the list it is given in place and returns it
SortMatches(l, sort_by, sort_descending) ==
    IF sort_by \in {"date", "time", "season"}
    THEN [l EXCEPT !.items = StableSort(l.items, sort_by, sort_descending)]
    ELSE l

\* filter_matches on the collection ms with the arguments p: the list it
\* returns, and self.matches afterwards (sorted too if the list that was sorted
\* is the collection itself)
FilterMatches(ms, p) ==
    LET copy == ListCopy([obj |-> "self.matches", items |-> ms])
        a == ApplyCompletionFilters(copy, p)
        b == ApplyTimeFilters(a, p)
        c == ApplyMatchTypeFilters(b, p)
        d == ApplyCategoricalFilters(c, p)
        e == ApplyDateFilters(d, p)
        sorted == SortMatches(e, p.sort_by, p.sort_descending)
    IN  [result |-> sorted.items,
         matches |-> IF sorted.obj = "self.matches" THEN sorted.items ELSE ms]

FilterIdle ==
    /\ matches = <<>>
    /\ params = DefaultParams
    /\ filtered = <<>>
    /\ fpc = "idle"
    /\ report = [op |-> "none"]
    /\ fc = [matches |-> <<>>, rolling_window |-> 0, percentile |-> 0]

FilterStart ==
    /\ matches \in Collections
    /\ params = DefaultParams
    /\ filtered = <<>>
    /\ fpc = "idle"
    /\ report = [op |-> "none"]
    /\ fc = [matches |-> <<>>, rolling_window |-> 0, percentile |-> 0]

\* analyzer.filter_matches(**p)
Filter(p) ==
    /\ fpc = "idle"
    /\ \E call \in {FilterMatches(matches, p)} :
          /\ filtered' = call.result
          /\ matches' = call.matches
    /\ params' = p
    /\ fpc' = "filtered"
    /\ UNCHANGED <<report, fc, matchVars, fetchVars, rlVars, paceVars, detailVars>>

\* analyzer.matches = filtered; analyzer.filter_matches(**params)
FilterAgain ==
    /\ fpc = "filtered"
    /\ \E call \in {FilterMatches(filtered, params)} :
          /\ filtered' = call.result
          /\ matches' = call.matches
    /\ fpc' = "again"
    /\ UNCHANGED <<params, report, fc, matchVars, fetchVars, rlVars, paceVars, detailVars>>

(***************************************************************************)
(* Aggregation over a list of matches: season_breakdown,                   *)
(* seed_type_breakdown, get_segment_stats and get_split_stats.  The        *)
(* statistics of a list of times are its count, the times themselves, the  *)
(* best and worst, the total (average = total / matches) and twice the     *)
(* median; the standard deviation is left out.                             *)
(***************************************************************************)
SEGMENT_ORDER ==
    <<"nether_enter", "bastion_enter", "fortress_enter", "blind_portal",
      "stronghold_enter", "end_enter", "game_end">>
SegmentIndex(segment) == CHOOSE i \in 1..Len(SEGMENT_ORDER) : SEGMENT_ORDER[i] = segment

RECURSIVE SumSeq(_)
SumSeq(xs) == IF xs = <<>> THEN 0 ELSE Head(xs) + SumSeq(Tail(xs))

\* sorted(data) for a list of numbers
RECURSIVE InsertNumber(_, _)
InsertNumber(sorted, x) ==
    IF sorted = <<>> THEN <<x>>
    ELSE IF x < Head(sorted) THEN <<x>> \o sorted
    ELSE <<Head(sorted)>> \o InsertNumber(Tail(sorted), x)
RECURSIVE SortedNumbers(_)
SortedNumbers(xs) ==
    IF xs = <<>> THEN <<>>
    ELSE InsertNumber(SortedNumbers(SubSeq(xs, 1, Len(xs) - 1)), xs[Len(xs)])

\* min, max, statistics.mean and statistics.median of a non-empty list
TimeStats(times) ==
    LET sd == SortedNumbers(times)
        n == Len(times)
    IN  [matches |-> n, times |-> times, best |-> sd[1], worst |-> sd[n],
         total |-> SumSeq(times),
         median2 |-> IF n % 2 = 1 THEN 2 * sd[(n + 1) \div 2]
                     ELSE sd[n \div 2] + sd[n \div 2 + 1]]

\* the times statistics of the matches of each key (season or seed type), in
\* the order of the list
Breakdown(items, Key(_)) ==
    [k \in {Key(items[i]) : i \in 1..Len(items)} |->
        TimeStats(LET own == SelectSeq(items, LAMBDA m : Key(m) = k)
                  IN  [i \in 1..Len(own) |-> Val(own[i].match_time)])]

\* season_breakdown(include_private_rooms, seed_type_filter): the dict it
\* returns, and self.matches afterwards
SeasonBreakdown(ms, include_private_rooms, seed_type_filter) ==
    LET filters == [DefaultParams EXCEPT
                        !.include_private_rooms = include_private_rooms,
                        !.completed_only = TRUE,
                        !.seed_types = IF Truthy(seed_type_filter)
                                       THEN Some({Val(seed_type_filter)}) ELSE None]
        call == FilterMatches(ms, filters)
    IN  [result |-> Breakdown(call.result, LAMBDA m : m.season), matches |-> call.matches]

\* seed_type_breakdown(include_private_rooms, season_filter)
SeedTypeBreakdown(ms, include_private_rooms, season_filter) ==
    LET filters == [DefaultParams EXCEPT
                        !.include_private_rooms = include_private_rooms,
                        !.completed_only = TRUE,
                        !.seasons = IF season_filter # None /\ Val(season_filter) # 0
                                    THEN Some({Val(season_filter)}) ELSE None]
        call == FilterMatches(ms, filters)
    IN  [result |-> Breakdown(call.result, LAMBDA m : m.seed_type), matches |-> call.matches]

\* the last segment, in segment order, a match has
LastSegmentIndex(m) == Max({0} \cup {SegmentIndex(s) : s \in DOMAIN m.segments})

\* get_segment_stats: whether the segment of the match contributes
CountsForSegmentStats(m, segment) ==
    /\ segment \in DOMAIN m.segments
    /\ ~(segment = "game_end" /\ ~m.user_completed)

\* a variant of get_split_stats that keeps the last segment of a draw or
\* forfeit
CountsForSplitStatsKeepingLast(m, segment) ==
    /\ segment \in DOMAIN m.segments
    /\ ~(segment = "game_end" /\ ~m.user_completed)

\* get_split_stats: whether the segment of the match contributes
CountsForSplitStats(m, segment) ==
    /\ segment \in DOMAIN m.segments
    /\ ~(segment = "game_end" /\ ~m.user_completed)
    /\ ~((m.is_draw \/ m.forfeited) /\ SegmentIndex(segment) = LastSegmentIndex(m))

SegmentTimes(items, segment, Counts(_, _), field) ==
    LET own == SelectSeq(items, LAMBDA m : Counts(m, segment))
    IN  [i \in 1..Len(own) |-> own[i].segments[segment][field]]

\* get_segment_stats(matches)
GetSegmentStats(items) ==
    [segment \in {s \in Range(SEGMENT_ORDER) :
                     SegmentTimes(items, s, CountsForSegmentStats, "absolute_time") # <<>>} |->
        TimeStats(SegmentTimes(items, segment, CountsForSegmentStats, "absolute_time"))]

\* get_split_stats(matches)
GetSplitStats(items) ==
    [segment \in {s \in Range(SEGMENT_ORDER) :
                     SegmentTimes(items, s, CountsForSplitStats, "split_time") # <<>>} |->
        TimeStats(SegmentTimes(items, segment, CountsForSplitStats, "split_time"))]

(***************************************************************************)
(* SpeedrunForecaster.  Times are whole milliseconds; a percentile is a    *)
(* weighted mean with weights in hundredths, so the percentile values and  *)
(* the running forecast are kept in hundredths of a millisecond and the    *)
(* final int(forecast) divides by 100.                                     *)
(***************************************************************************)
\* self.matches = sorted(matches, key=lambda m: m.date): a new list
SortedByDate(l) == [obj |-> "sorted", items |-> StableSort(l.items, "date", FALSE)]

\* a variant of the percentile that takes the sorted value at the floor index
CalculatePercentileFloor(values, percentile) ==
    IF values = <<>> THEN 0
    ELSE LET sorted_data == SortedNumbers(values)
             n == Len(sorted_data)
         IN  IF percentile <= 0 THEN 100 * sorted_data[1]
             ELSE IF percentile >= 100 THEN 100 * sorted_data[n]
             ELSE 100 * sorted_data[(percentile * (n - 1)) \div 100 + 1]

\* _calculate_percentile(data, percentile), in hundredths; index * 100 is
\* percentile * (n - 1), and the lists of Python are indexed from 0
CalculatePercentile(values, percentile) ==
    IF values = <<>> THEN 0
    ELSE LET sorted_data == SortedNumbers(values)
             n == Len(sorted_data)
             index100 == percentile * (n - 1)
             lower_index == index100 \div 100
             upper_index == Min({lower_index + 1, n - 1})
             weight100 == index100 - 100 * lower_index
         IN  IF percentile <= 0 THEN 100 * sorted_data[1]
             ELSE IF percentile >= 100 THEN 100 * sorted_data[n]
             ELSE IF lower_index = upper_index THEN 100 * sorted_data[lower_index + 1]
             ELSE sorted_data[lower_index + 1] * (100 - weight100)
                    + sorted_data[upper_index + 1] * weight100

\* lst[-window:] when len(lst) > window
LastWindow(lst, window) ==
    IF Len(lst) > window /\ window > 0 THEN SubSeq(lst, Len(lst) - window + 1, Len(lst))
    ELSE lst

\* a variant of the historical set that takes every other completed,
\* detail-having run, whatever its date
HistoricalMatchesAnyDate(sorted, run, up_to_index, rolling_window) ==
    LastWindow(SelectSeq(sorted, LAMBDA h : /\ h.user_completed /\ h.has_detailed_data
                                             /\ h.id # run.id),
               rolling_window)

\* the historical matches of _calculate_rolling_percentiles: up_to_index is
\* the number of matches before the run in the sorted list
HistoricalMatches(sorted, run, up_to_index, rolling_window) ==
    LastWindow(SelectSeq(SubSeq(sorted, 1, up_to_index),
                         LAMBDA h : /\ h.user_completed /\ h.has_detailed_data
                                    /\ h.date < run.date),
               rolling_window)

\* _calculate_rolling_percentiles(run, up_to_index)
RollingPercentiles(sorted, run, up_to_index, rolling_window, percentile) ==
    LET hist == HistoricalMatches(sorted, run, up_to_index, rolling_window)
        SegmentTimesOf(segment) ==
            LET own == SelectSeq(hist, LAMBDA h : segment \in DOMAIN h.segments)
            IN  [i \in 1..Len(own) |-> own[i].segments[segment].absolute_time]
    IN  [segment \in {s \in Range(SEGMENT_ORDER) : Len(SegmentTimesOf(s)) >= 3} |->
            CalculatePercentile(SegmentTimesOf(segment), percentile)]

\* _get_historical_split_times(current_match, up_to_index, segment)
HistoricalSplitTimes(sorted, current_match, up_to_index, segment, rolling_window) ==
    LET own == SelectSeq(SubSeq(sorted, 1, up_to_index),
                         LAMBDA h : /\ h.user_completed /\ h.has_detailed_data
                                    /\ h.date < current_match.date
                                    /\ segment \in DOMAIN h.segments
                                    /\ h.segments[segment].split_time > 0)
    IN  LastWindow([i \in 1..Len(own) |-> own[i].segments[segment].split_time],
                   rolling_window)

\* a variant of the loop that adds, for the first remaining segment, the
\* difference of its percentile to the percentile of the segment before it
\* instead of the difference to the run's current time
RECURSIVE ForecastLoopFromCurrent(_, _, _, _, _, _, _)
ForecastLoopFromCurrent(k, first, forecast100, current_time, rolling_percentiles, split_times, percentile) ==
    IF k > Len(SEGMENT_ORDER) THEN Some(forecast100)
    ELSE IF SEGMENT_ORDER[k] \notin DOMAIN rolling_percentiles THEN None
    ELSE LET p == rolling_percentiles[SEGMENT_ORDER[k]]
             before == IF k > 1 /\ SEGMENT_ORDER[k - 1] \in DOMAIN rolling_percentiles
                       THEN rolling_percentiles[SEGMENT_ORDER[k - 1]]
                       ELSE 100 * current_time
         IN  ForecastLoopFromCurrent(k + 1, first,
                                     IF p > before THEN forecast100 + (p - before)
                                     ELSE forecast100,
                                     current_time, rolling_percentiles, split_times,
                                     percentile)

\* a variant of the loop that leaves out a segment without a rolling
\* percentile and goes on with the sum
RECURSIVE ForecastLoopSkipping(_, _, _, _, _, _, _)
ForecastLoopSkipping(k, first, forecast100, current_time, rolling_percentiles, split_times, percentile) ==
    IF k > Len(SEGMENT_ORDER) THEN Some(forecast100)
    ELSE IF SEGMENT_ORDER[k] \notin DOMAIN rolling_percentiles
    THEN ForecastLoopSkipping(k + 1, first, forecast100, current_time, rolling_percentiles,
                              split_times, percentile)
    ELSE LET p == rolling_percentiles[SEGMENT_ORDER[k]]
             before == IF k = first \/ SEGMENT_ORDER[k - 1] \notin DOMAIN rolling_percentiles
                       THEN 100 * current_time
                       ELSE rolling_percentiles[SEGMENT_ORDER[k - 1]]
         IN  ForecastLoopSkipping(k + 1, first,
                                  IF p > before THEN forecast100 + (p - before)
                                  ELSE forecast100,
                                  current_time, rolling_percentiles, split_times, percentile)

\* the loop of calculate_forecast over the remaining segments k..7, with the
\* running forecast in hundredths: None when a segment cannot be projected
RECURSIVE ForecastLoop(_, _, _, _, _, _, _)
ForecastLoop(k, first, forecast100, current_time, rolling_percentiles, split_times, percentile) ==
    IF k > Len(SEGMENT_ORDER) THEN Some(forecast100)
    ELSE IF SEGMENT_ORDER[k] \notin DOMAIN rolling_percentiles THEN None
    ELSE LET p == rolling_percentiles[SEGMENT_ORDER[k]]
         IN  IF k = first
             THEN ForecastLoop(k + 1, first,
                               IF p > 100 * current_time
                               THEN forecast100 + (p - 100 * current_time)
                               ELSE forecast100,
                               current_time, rolling_percentiles, split_times, percentile)
             ELSE IF SEGMENT_ORDER[k - 1] \in DOMAIN rolling_percentiles
             THEN ForecastLoop(k + 1, first,
                               IF p - rolling_percentiles[SEGMENT_ORDER[k - 1]] > 0
                               THEN forecast100 + (p - rolling_percentiles[SEGMENT_ORDER[k - 1]])
                               ELSE forecast100,
                               current_time, rolling_percentiles, split_times, percentile)
             ELSE IF split_times[SEGMENT_ORDER[k]] # <<>>
             THEN ForecastLoop(k + 1, first,
                               forecast100
                                 + CalculatePercentile(split_times[SEGMENT_ORDER[k]], percentile),
                               current_time, rolling_percentiles, split_times, percentile)
             ELSE None

\* the index of the first run of the sorted list with the id, None if absent
MatchIndex(sorted, id) ==
    IF \E i \in 1..Len(sorted) : sorted[i].id = id
    THEN Some(Min({i \in 1..Len(sorted) : sorted[i].id = id}) - 1)
    ELSE None

\* calculate_forecast(run) of a forecaster [matches, rolling_window,
\* percentile]: None or the forecast in milliseconds
CalculateForecast(f, run) ==
    IF run.user_completed /\ run.match_time # None THEN run.match_time
    ELSE IF ~run.has_detailed_data \/ DOMAIN run.segments = {} THEN None
    ELSE IF MatchIndex(f.matches, run.id) = None THEN None
    ELSE LET match_index == Val(MatchIndex(f.matches, run.id))
             rolling_percentiles ==
                 RollingPercentiles(f.matches, run, match_index, f.rolling_window,
                                    f.percentile)
             last == LastSegmentIndex(run)
             current_time == run.segments[SEGMENT_ORDER[last]].absolute_time
             split_times ==
                 [s \in Range(SEGMENT_ORDER) |->
                     HistoricalSplitTimes(f.matches, run, match_index, s, f.rolling_window)]
         IN  IF DOMAIN rolling_percentiles = {} THEN None
             ELSE IF last = Len(SEGMENT_ORDER) THEN Some(current_time)
             ELSE LET total == ForecastLoop(last + 1, last + 1, 100 * current_time,
                                            current_time, rolling_percentiles,
                                            split_times, f.percentile)
                  IN  IF total = None THEN None ELSE Some(Val(total) \div 100)

\* SpeedrunForecaster(matches, rolling_window, percentile) on the list l
NewForecaster(l, rolling_window, percentile) ==
    [list |-> SortedByDate(l), rolling_window |-> rolling_window, percentile |-> percentile]
Forecaster(l, rolling_window, percentile) ==
    [matches |-> NewForecaster(l, rolling_window, percentile).list.items,
     rolling_window |-> rolling_window, percentile |-> percentile]
\* the items of the caller's list once the forecaster is constructed
InputAfter(l, rolling_window, percentile) ==
    IF NewForecaster(l, rolling_window, percentile).list.obj = l.obj
    THEN NewForecaster(l, rolling_window, percentile).list.items
    ELSE l.items

\* results.sort(key=lambda x: x['forecast_time'])
RECURSIVE InsertResult(_, _)
InsertResult(sorted, x) ==
    IF sorted = <<>> THEN <<x>>
    ELSE IF x.forecast_time < Head(sorted).forecast_time THEN <<x>> \o sorted
    ELSE <<Head(sorted)>> \o InsertResult(Tail(sorted), x)
RECURSIVE SortedResults(_)
SortedResults(rs) ==
    IF rs = <<>> THEN <<>>
    ELSE InsertResult(SortedResults(SubSeq(rs, 1, Len(rs) - 1)), rs[Len(rs)])

\* create_forecast_results(matches, rolling_window, percentile): one entry
\* for every match with a forecast, sorted by forecast_time
CreateForecastResults(l, rolling_window, percentile) ==
    LET f == Forecaster(l, rolling_window, percentile)
        after == InputAfter(l, rolling_window, percentile)
        with == SelectSeq(after, LAMBDA m : CalculateForecast(f, m) # None)
    IN  SortedResults([i \in 1..Len(with) |->
            [match |-> with[i].id,
             forecast_time |-> Val(CalculateForecast(f, with[i])),
             is_completed |-> with[i].user_completed,
             actual_time |-> IF with[i].user_completed THEN with[i].match_time ELSE None]])

\* a variant of prev_time that falls back to 0 whenever the segment just
\* before is absent
PrevTimeResetting(abs, k) ==
    IF k = 1 THEN 0
    ELSE IF SEGMENT_ORDER[k - 1] \in DOMAIN abs THEN abs[SEGMENT_ORDER[k - 1]]
    ELSE 0
\* fetch_segment_data, "Calculate split times": the value of prev_time when
\* the loop over segment_order reaches its k-th segment, 0 at first and then
\* the absolute time of the segment the loop last found in the dict
RECURSIVE PrevTime(_, _)
PrevTime(abs, k) ==
    IF k = 1 THEN 0
    ELSE IF SEGMENT_ORDER[k - 1] \in DOMAIN abs THEN abs[SEGMENT_ORDER[k - 1]]
    ELSE PrevTime(abs, k - 1)

\* fetch_segment_data: the segments dict of a match from the absolute times
\* of its timeline, each with the split time the loop gives it,
\* abs_time - prev_time
WithSplitTimes(abs) ==
    [s \in DOMAIN abs |->
        [absolute_time |-> abs[s],
         split_time |-> abs[s] - PrevTime(abs, SegmentIndex(s))]]
\* the absolute times of the first segments of the segment order
FirstSegments(times) ==
    [s \in {SEGMENT_ORDER[i] : i \in 1..Len(times)} |-> times[SegmentIndex(s)]]

\* a two-player match of the analyzed user "BOB" against eve with the given
\* winner and winner time, and the given segment times
SampleRun(id, date, winner_uuid, time, times) ==
    WithSegments(MatchInit(RawRow(id, date, 4, 2, "village", FALSE, <<Bob, Eve>>,
                                  RawResult(winner_uuid, time)), Some("BOB")),
                 WithSplitTimes(FirstSegments(times)))

\* the runs a forecast collection is drawn from: four completed runs with
\* all segments, a lost run that stopped at nether_enter, a draw that reached
\* end_enter, a win without a recorded time, a completed run without detail
\* data, a completed run of the same date as the incomplete ones, a later,
\* much faster completed run, and a completed run whose detail data stops at
\* stronghold_enter
SampleRuns ==
    { SampleRun(1, 1, Some("u1"), Some(700), <<100, 200, 300, 400, 500, 600, 700>>),
      SampleRun(2, 2, Some("u1"), Some(770), <<120, 210, 330, 420, 540, 650, 770>>),
      SampleRun(3, 3, Some("u1"), Some(840), <<140, 260, 340, 480, 560, 700, 840>>),
      SampleRun(4, 4, Some("u1"), Some(650), <<90, 180, 280, 390, 470, 560, 650>>),
      SampleRun(5, 5, Some("u2"), Some(600), <<110>>),
      SampleRun(6, 5, None, Some(0), <<130, 230, 350, 450, 550, 690>>),
      SampleRun(7, 5, Some("u1"), None, <<115, 250>>),
      SampleRun(8, 2, Some("u1"), Some(500), <<>>),
      SampleRun(9, 5, Some("u1"), Some(900), <<200, 300, 400, 500, 600, 800, 900>>),
      SampleRun(10, 6, Some("u1"), Some(70), <<10, 20, 30, 40, 50, 60, 70>>),
      SampleRun(11, 3, Some("u1"), Some(800), <<150, 240, 350, 460, 580>>) }

\* the collections: any of the runs, newest first (as a fetch returns them)
\* or oldest first
RECURSIVE ByIdAscending(_)
ByIdAscending(S) ==
    IF S = {} THEN <<>>
    ELSE LET m == CHOOSE x \in S : \A y \in S : x.id <= y.id
         IN  <<m>> \o ByIdAscending(S \ {m})
ForecastCollections ==
    {ByIdAscending(S) : S \in SUBSET SampleRuns}
        \cup {Reversed(ByIdAscending(S)) : S \in SUBSET SampleRuns}

RollingWindows == {3, 4}
PercentileArgs == {0, 25, 50, 90, 100}
PercentileData ==
    (SeqUpTo({1, 2, 4}, 3) \ {<<>>}) \cup {<<1, 2, 3, 4, 5>>, <<5, 1, 4, 2, 3>>, <<7, 1, 3, 9>>}

NoReport == [op |-> "none"]
NoForecaster == [matches |-> <<>>, rolling_window |-> 0, percentile |-> 0]

StatsIdle ==
    /\ report = NoReport
    /\ fc = NoForecaster

\* the list the caller hands to an aggregation or to the forecaster
CallerList == [obj |-> "caller", items |-> matches]

\* analyzer.season_breakdown(include_private_rooms, seed_type_filter)
SeasonStats(include_private_rooms, seed_type_filter) ==
    /\ fpc = "idle"
    /\ \E call \in {SeasonBreakdown(matches, include_private_rooms, seed_type_filter)} :
          /\ report' = [op |-> "season_breakdown", result |-> call.result]
          /\ matches' = call.matches
    /\ fpc' = "done"
    /\ UNCHANGED <<params, filtered, fc, matchVars, fetchVars, rlVars, paceVars, detailVars>>

\* analyzer.seed_type_breakdown(include_private_rooms, season_filter)
SeedTypeStats(include_private_rooms, season_filter) ==
    /\ fpc = "idle"
    /\ \E call \in {SeedTypeBreakdown(matches, include_private_rooms, season_filter)} :
          /\ report' = [op |-> "seed_type_breakdown", result |-> call.result]
          /\ matches' = call.matches
    /\ fpc' = "done"
    /\ UNCHANGED <<params, filtered, fc, matchVars, fetchVars, rlVars, paceVars, detailVars>>

\* analyzer.get_segment_stats(matches)
SegmentStats ==
    /\ fpc = "idle"
    /\ report' = [op |-> "get_segment_stats", result |-> GetSegmentStats(matches)]
    /\ fpc' = "done"
    /\ UNCHANGED <<matches, params, filtered, fc, matchVars, fetchVars, rlVars, paceVars, detailVars>>

\* analyzer.get_split_stats(matches)
SplitStats ==
    /\ fpc = "idle"
    /\ report' = [op |-> "get_split_stats", result |-> GetSplitStats(matches)]
    /\ fpc' = "done"
    /\ UNCHANGED <<matches, params, filtered, fc, matchVars, fetchVars, rlVars, paceVars, detailVars>>

\* SpeedrunForecaster(matches, rolling_window, percentile)
NewSpeedrunForecaster(rolling_window, percentile) ==
    /\ fpc = "idle"
    /\ fc' = Forecaster(CallerList, rolling_window, percentile)
    /\ matches' = InputAfter(CallerList, rolling_window, percentile)
    /\ report' = [op |-> "SpeedrunForecaster"]
    /\ fpc' = "forecaster"
    /\ UNCHANGED <<params, filtered, matchVars, fetchVars, rlVars, paceVars, detailVars>>

\* forecaster.calculate_forecast(matches[i]); historical is the list of the
\* ids of the historical matches its rolling percentiles were taken from
Forecast(i) ==
    /\ fpc = "forecaster"
    /\ i \in 1..Len(matches)
    /\ report' = [op |-> "calculate_forecast", match |-> matches[i],
                  historical |->
                      LET hist == HistoricalMatches(fc.matches, matches[i],
                                      Val(MatchIndex(fc.matches, matches[i].id)),
                                      fc.rolling_window)
                      IN  [k \in 1..Len(hist) |-> hist[k].id],
                  result |-> CalculateForecast(fc, matches[i])]
    /\ fpc' = "done"
    /\ UNCHANGED <<matches, params, filtered, fc, matchVars, fetchVars, rlVars, paceVars, detailVars>>

\* create_forecast_results(matches, rolling_window, percentile)
ForecastResults(rolling_window, percentile) ==
    /\ fpc = "idle"
    /\ fc' = Forecaster(CallerList, rolling_window, percentile)
    /\ matches' = InputAfter(CallerList, rolling_window, percentile)
    /\ report' = [op |-> "create_forecast_results",
                  result |-> CreateForecastResults(CallerList, rolling_window, percentile)]
    /\ fpc' = "done"
    /\ UNCHANGED <<params, filtered, matchVars, fetchVars, rlVars, paceVars, detailVars>>

\* forecaster._calculate_percentile(data, percentile), on a forecaster that
\* holds no matches
Percentile(xs, percentile) ==
    /\ fpc = "idle"
    /\ matches = <<>>
    /\ report' = [op |-> "_calculate_percentile", data |-> xs, percentile |-> percentile,
                  result |-> CalculatePercentile(xs, percentile)]
    /\ fpc' = "done"
    /\ UNCHANGED <<matches, params, filtered, fc, matchVars, fetchVars, rlVars, paceVars, detailVars>>

ForecastStart ==
    /\ matches \in ForecastCollections
    /\ params = DefaultParams
    /\ filtered = <<>>
    /\ fpc = "idle"
    /\ StatsIdle

NextForecast ==
    \/ \E w \in RollingWindows, p \in PercentileArgs : NewSpeedrunForecaster(w, p)
    \/ \E i \in 1..Cardinality(SampleRuns) : Forecast(i)
    \/ \E w \in RollingWindows, p \in PercentileArgs : ForecastResults(w, p)
    \/ \E xs \in PercentileData, p \in PercentileArgs : Percentile(xs, p)

NextFilter ==
    \/ \E p \in FilterParams : Filter(p)
    \/ FilterAgain
    \/ \E private \in BOOLEAN, seed \in {None, Some("village")} : SeasonStats(private, seed)
    \/ \E private \in BOOLEAN, season \in {None, Some(4)} : SeedTypeStats(private, season)
    \/ SegmentStats
    \/ SplitStats
    \/ \E w \in RollingWindows, p \in PercentileArgs : NewSpeedrunForecaster(w, p)
    \/ \E i \in 1..MaxMatches : Forecast(i)
    \/ \E w \in RollingWindows, p \in PercentileArgs : ForecastResults(w, p)

(***************************************************************************)
(* Detail data: MCSRAnalyzer.fetch_segment_data run by the threads that    *)
(* DataLoader starts.  analyzers holds the MCSRAnalyzer objects made so    *)
(* far, each with its rate limiter's ledger and its matches; ui is the     *)
(* index of self.ui.analyzer (0: None); threads holds the fetch threads,   *)
(* each with the analyzer it runs on, its local segment_cache dict and the *)
(* matches it still has to fetch; segment_file is the segment cache file   *)
(* and rl_file the rate-limit state file of the username.  A thread also   *)
(* keeps what it fetched and the times of the requests it sent.            *)
(***************************************************************************)
MaxAnalyzers == 2
MaxThreads == 2

\* segment_mappings of fetch_segment_data
segment_mappings ==
    ("story.enter_the_nether" :> "nether_enter")
        @@ ("nether.find_bastion" :> "bastion_enter")
        @@ ("nether.find_fortress" :> "fortress_enter")
        @@ ("projectelo.timeline.blind_travel" :> "blind_portal")
        @@ ("story.follow_ender_eye" :> "stronghold_enter")
\* a variant that also maps the events of the last two segments
segment_mappings_with_end ==
    segment_mappings
        @@ ("story.enter_the_end" :> "end_enter")
        @@ ("projectelo.timeline.dragon_death" :> "game_end")

\* the segment that a timeline event is recorded under, None if it is not
\* recorded: its type is mapped, its time is not None and it is the analyzed
\* user's
TrackedWithEnd(event, user_uuid) ==
    IF event.type \in DOMAIN segment_mappings_with_end /\ event.time # None
          /\ event.uuid = user_uuid
    THEN Some(segment_mappings_with_end[event.type]) ELSE None
Tracked(event, user_uuid) ==
    IF event.type \in DOMAIN segment_mappings /\ event.time # None
          /\ event.uuid = user_uuid
    THEN Some(segment_mappings[event.type]) ELSE None

\* for event in data['timelines']: ... segments[segment_name] =
\* {'absolute_time': event_time}: the absolute times by segment name, a later
\* event of a segment replacing an earlier one
RECURSIVE TimelineTimes(_, _, _)
TimelineTimes(events, user_uuid, times) ==
    IF events = <<>> THEN times
    ELSE LET event == Head(events)
             name == Tracked(event, user_uuid)
         IN  TimelineTimes(Tail(events), user_uuid,
                 IF name = None THEN times
                 ELSE (Val(name) :> Val(event.time)) @@ times)

\* the segments dict fetch_segment_data builds from the timelines of a 200
\* answer
FetchedSegments(events, user_uuid) ==
    WithSplitTimes(TimelineTimes(events, user_uuid, <<>>))

\* a timeline event
Event(type, time, uuid) == [type |-> type, time |-> time, uuid |-> uuid]
\* the event types of the seven milestones of a run, in segment order
MilestoneTypes ==
    <<"story.enter_the_nether", "nether.find_bastion", "nether.find_fortress",
      "projectelo.timeline.blind_travel", "story.follow_ender_eye",
      "story.enter_the_end", "projectelo.timeline.dragon_death">>
\* the timeline of a player who reached the first milestones at the given times
TimelineOf(times, uuid) ==
    [i \in 1..Len(times) |-> Event(MilestoneTypes[i], Some(times[i]), uuid)]

\* the timelines the server answers with: none; a full run of the user mixed
\* with the opponent's events and an event type that is not a milestone; a
\* run without bastion in which the fortress event comes before the nether
\* event, one event has no time and the nether event is repeated; events of
\* the opponent only
Timelines ==
    { <<>>,
      <<Event("story.enter_the_nether", Some(100), Some("u1")),
        Event("story.enter_the_nether", Some(90), Some("u2")),
        Event("nether.find_bastion", Some(200), Some("u1")),
        Event("story.form_obsidian", Some(210), Some("u1")),
        Event("nether.find_fortress", Some(300), Some("u1")),
        Event("projectelo.timeline.blind_travel", Some(400), Some("u1")),
        Event("story.follow_ender_eye", Some(500), Some("u1")),
        Event("story.enter_the_end", Some(600), Some("u1")),
        Event("projectelo.timeline.dragon_death", Some(700), Some("u1"))>>,
      <<Event("nether.find_fortress", Some(310), Some("u1")),
        Event("story.enter_the_nether", Some(80), Some("u1")),
        Event("projectelo.timeline.blind_travel", None, Some("u1")),
        Event("story.follow_ender_eye", Some(450), Some("u1")),
        Event("story.enter_the_nether", Some(120), Some("u1"))>>,
      TimelineOf(<<95, 190>>, Some("u2")) }

\* what a detail request comes back with: a status and, with 200, a timeline
DetailAnswers ==
    {[status |-> "200", timelines |-> tl] : tl \in Timelines}
        \cup {[status |-> st, timelines |-> <<>>] : st \in Statuses \ {"200"}}

\* the matches of the analyzed user "BOB" that an analyzer loads from the
\* match cache: two wins, the second the newer one
DetailMatches ==
    LET user == Some("BOB")
    IN  << WithSegments(MatchInit(RawRow(1, 1, 4, 2, "village", FALSE, <<Bob, Eve>>,
                                         RawResult(Some("u1"), Some(700))), user), <<>>),
           WithSegments(MatchInit(RawRow(2, 2, 4, 2, "village", FALSE, <<Bob, Eve>>,
                                         RawResult(Some("u1"), Some(650))), user), <<>>) >>

\* _apply_cached_segment_data: the matches with the segments of the segment
\* cache file
ApplyCachedSegmentData(ms, segment_cache) ==
    [i \in 1..Len(ms) |->
        IF ms[i].id \in DOMAIN segment_cache
        THEN [ms[i] EXCEPT !.segments = segment_cache[ms[i].id],
                           !.has_detailed_data = DOMAIN segment_cache[ms[i].id] # {}]
        ELSE ms[i]]

\* MCSRAnalyzer(username) followed by fetch_all_matches(use_cache=True) on a
\* valid match cache: the ledger loaded from the rate-limit state file, the
\* matches of the match cache with the cached segment data
NewAnalyzer ==
    [requests |-> LoadRateLimitState(<<>>, rl_file, now),
     matches |-> ApplyCachedSegmentData(DetailMatches, segment_file)]

\* matches_to_fetch of fetch_segment_data(max_matches=100,
\* force_refresh=False): the ids of the matches, newest first, that are not
\* in the segment cache
MatchesToFetch(ms, segment_cache) ==
    LET sorted == StableSort(ms, "date", TRUE)
        ids == [i \in 1..Len(sorted) |-> sorted[i].id]
    IN  SelectSeq(ids, LAMBDA id : id \notin DOMAIN segment_cache)

\* if not can_make_request(): wait_time = get_wait_time(); if wait_time > 0:
\* time.sleep(wait_time); then record_request(): the ledger and the clock
\* after them
PacedRecord(ledger, t) ==
    LET evicted == Evict(ledger, t)
        sent_at == t + WaitTime(evicted, t)
    IN  [requests |-> Append(evicted, sent_at), now |-> sent_at]

\* the matches of an analyzer after a 200 answer for the match id
WithFetched(ms, id, events) ==
    [i \in 1..Len(ms) |->
        IF ms[i].id = id
        THEN [ms[i] EXCEPT !.segments = FetchedSegments(events, ms[i].user_uuid),
                           !.has_detailed_data =
                               DOMAIN FetchedSegments(events, ms[i].user_uuid) # {}]
        ELSE ms[i]]

\* the segments of the match id
SegmentsOfId(ms, id) == (CHOOSE m \in Range(ms) : m.id = id).segments

\* DataLoader.load_from_cache: its thread makes a new analyzer of the
\* username and hands it to the user interface
LoadFromCache ==
    /\ Len(analyzers) < MaxAnalyzers
    /\ analyzers' = Append(analyzers, NewAnalyzer)
    /\ ui' = Len(analyzers) + 1
    /\ UNCHANGED <<threads, segment_file, matchVars, fetchVars, rlVars, filterVars, paceVars>>

\* DataLoader.fetch_segments: a new thread calls fetch_segment_data on the
\* current analyzer, which loads the segment cache file and lists the matches
\* to fetch; with none it returns 0 at once
FetchSegments ==
    /\ ui # 0
    /\ Len(threads) < MaxThreads
    /\ LET todo == MatchesToFetch(analyzers[ui].matches, segment_file)
           running == \E t \in 1..Len(threads) : threads[t].pc = "loop"
       IN  threads' = Append(
               [t \in 1..Len(threads) |->
                   IF threads[t].pc = "loop" /\ todo # <<>>
                   THEN [threads[t] EXCEPT !.overlapped = TRUE] ELSE threads[t]],
               [pc |-> IF todo = <<>> THEN "done" ELSE "loop",
                analyzer |-> ui,
                segment_cache |-> segment_file,
                todo |-> todo,
                fetched |-> {},
                sent |-> <<>>,
                overlapped |-> running /\ todo # <<>>])
    /\ UNCHANGED <<analyzers, ui, segment_file, matchVars, fetchVars, rlVars, filterVars, paceVars>>

\* one iteration of the loop over matches_to_fetch in the thread t: waiting
\* as the ledger demands, recording and sending the request, and handling
\* the answer
DetailRequest(t, answer) ==
    /\ t \in 1..Len(threads)
    /\ threads[t].pc = "loop"
    /\ threads[t].todo # <<>>
    /\ LET th == threads[t]
           id == Head(th.todo)
           a == th.analyzer
           paced == PacedRecord(analyzers[a].requests, now)
           slept == IF answer.status = "429" THEN BackoffSeconds ELSE 0
       IN  /\ paced.now + slept <= MaxClock
           /\ now' = paced.now + slept
           /\ analyzers' =
                 [analyzers EXCEPT
                     ![a] = [requests |-> paced.requests,
                             matches |-> IF answer.status = "200"
                                         THEN WithFetched(analyzers[a].matches, id,
                                                          answer.timelines)
                                         ELSE analyzers[a].matches]]
           /\ threads' =
                 [threads EXCEPT
                     ![t] = [th EXCEPT
                         !.todo = Tail(th.todo),
                         !.sent = Append(th.sent, paced.now),
                         !.fetched = IF answer.status = "200" THEN th.fetched \cup {id}
                                     ELSE th.fetched,
                         !.segment_cache =
                             IF answer.status = "200"
                             THEN (id :> SegmentsOfId(WithFetched(analyzers[a].matches, id,
                                                                  answer.timelines), id))
                                      @@ th.segment_cache
                             ELSE th.segment_cache]]
    /\ UNCHANGED <<ui, segment_file, requests, calls, rl_ret, rl_file, matchVars, fetchVars, filterVars, paceVars>>

\* the end of fetch_segment_data in the thread t: _save_segment_cache of its
\* local dict and save_rate_limit_state of its analyzer's ledger
FinishDetail(t) ==
    /\ t \in 1..Len(threads)
    /\ threads[t].pc = "loop"
    /\ threads[t].todo = <<>>
    /\ segment_file' = threads[t].segment_cache
    /\ rl_file' = SaveRateLimitState(analyzers[threads[t].analyzer].requests, now)
    /\ analyzers' = [analyzers EXCEPT
                        ![threads[t].analyzer].requests =
                            Evict(analyzers[threads[t].analyzer].requests, now)]
    /\ threads' = [threads EXCEPT ![t].pc = "done"]
    /\ UNCHANGED <<ui, requests, now, calls, rl_ret, matchVars, fetchVars, filterVars, paceVars>>

NextDetail ==
    \/ LoadFromCache
    \/ FetchSegments
    \/ \E t \in 1..MaxThreads, answer \in DetailAnswers : DetailRequest(t, answer)
    \/ \E t \in 1..MaxThreads : FinishDetail(t)

\* a two-player match of the analyzed user "BOB" whose segments were fetched
\* from the timeline of a run that reached the first milestones at the given
\* times
FetchedRun(id, date, winner_uuid, time, times) ==
    LET m == MatchInit(RawRow(id, date, 4, 2, "village", FALSE, <<Bob, Eve>>,
                              RawResult(winner_uuid, time)), Some("BOB"))
    IN  WithSegments(m, FetchedSegments(TimelineOf(times, Some("u1")), m.user_uuid))

\* the runs of a collection whose detail data was fetched: four completed
\* runs that reached all milestones, a lost run that stopped at the nether
\* entry, a draw that reached the end, a win without a recorded time and a
\* completed run of the same date as the incomplete ones
FetchedRuns ==
    { FetchedRun(1, 1, Some("u1"), Some(700), <<100, 200, 300, 400, 500, 600, 700>>),
      FetchedRun(2, 2, Some("u1"), Some(770), <<120, 210, 330, 420, 540, 650, 770>>),
      FetchedRun(3, 3, Some("u1"), Some(840), <<140, 260, 340, 480, 560, 700, 840>>),
      FetchedRun(4, 4, Some("u1"), Some(650), <<90, 180, 280, 390, 470, 560, 650>>),
      FetchedRun(5, 5, Some("u2"), Some(600), <<110>>),
      FetchedRun(6, 5, None, Some(0), <<130, 230, 350, 450, 550, 690>>),
      FetchedRun(7, 5, Some("u1"), None, <<115, 250>>),
      FetchedRun(9, 5, Some("u1"), Some(900), <<200, 300, 400, 500, 600, 800, 900>>) }
FetchedCollections ==
    {ByIdAscending(S) : S \in SUBSET FetchedRuns}
        \cup {Reversed(ByIdAscending(S)) : S \in SUBSET FetchedRuns}

FetchedStart ==
    /\ matches \in FetchedCollections
    /\ params = DefaultParams
    /\ filtered = <<>>
    /\ fpc = "idle"
    /\ StatsIdle

InitMatch == MatchIdle /\ FetchIdle /\ RLIdle /\ FilterIdle /\ PaceIdle /\ DetailIdle
SpecMatch == InitMatch /\ [][NextMatch]_vars

InitRL == MatchIdleFixed /\ FetchIdle /\ RLIdle /\ FilterIdle /\ PaceIdle /\ DetailIdle
SpecRL == InitRL /\ [][NextRL]_vars
SpecRLState == InitRL /\ [][NextRLState]_vars

InitFilter == MatchIdleFixed /\ FetchIdle /\ RLIdle /\ FilterStart /\ PaceIdle /\ DetailIdle
SpecFilter == InitFilter /\ [][NextFilter]_vars

InitForecast == MatchIdleFixed /\ FetchIdle /\ RLIdle /\ ForecastStart /\ PaceIdle /\ DetailIdle
SpecForecast == InitForecast /\ [][NextForecast]_vars

InitPace == MatchIdleFixed /\ FetchIdle /\ RLIdle /\ FilterIdle /\ PaceIdle /\ DetailIdle
SpecPace == InitPace /\ [][NextPace]_vars

InitFetch == MatchIdleFixed /\ FetchStart /\ RLIdle /\ FilterIdle /\ PaceIdle /\ DetailIdle
SpecFetch == InitFetch /\ [][NextFetch]_vars

InitFetched == MatchIdleFixed /\ FetchIdle /\ RLIdle /\ FetchedStart /\ PaceIdle /\ DetailIdle
SpecFetched == InitFetched /\ [][NextForecast]_vars

InitDetail == MatchIdleFixed /\ FetchIdle /\ RLIdle /\ FilterIdle /\ PaceIdle /\ DetailIdle
SpecDetail == InitDetail /\ [][NextDetail]_vars
\* the analyzer's thread keeps running: a request that can be sent is sent and
\* a cool-down ends; what the server answers stays its own choice
AnalyzerStep ==
    \/ \E status \in Statuses : Probe(status)
    \/ \E status \in Statuses : Page(status)
    \/ Backoff
FairSpecFetch == SpecFetch /\ WF_vars(AnalyzerStep)

(***************************************************************************)
(* Properties of Match construction (SpecMatch).                           *)
(***************************************************************************)
Built == mpc # "start"
M == Val(match)
\* the result's uuid and time as the payload gives them
ResultUuid == IF data.result = None THEN None ELSE Val(data.result).uuid
ResultTime == IF data.result = None THEN None ELSE Val(data.result).time
\* the analyzed user was identified: a uuid was resolved for the username
Identified == M.user_uuid # None
UserWon == Identified /\ ResultUuid # None /\ M.user_uuid = ResultUuid
UserLost == Identified /\ ResultUuid # None /\ M.user_uuid # ResultUuid
DrawCase == Identified /\ ResultUuid = None /\ ~data.forfeited

\* C1: for every constructed Match, user_completed = true implies that
\* match_time is not null.
C1_CompletedHasTime == Built => (M.user_completed => M.match_time # None)

\* C4: (match_time, user_completed) is set by the first matching row of the
\* completion table: won and not forfeited -> (winner_time, true); won and
\* forfeited -> (winner_time, false); lost -> (null, false); draw ->
\* (winner_time, false); solo and not forfeited -> (winner_time, true); solo
\* and forfeited -> (winner_time, false); otherwise (null, false).
C4_CompletionTable ==
    Built =>
        <<M.match_time, M.user_completed>> =
            CASE UserWon /\ ~data.forfeited -> <<ResultTime, TRUE>>
              [] UserWon /\ data.forfeited -> <<ResultTime, FALSE>>
              [] UserLost -> <<None, FALSE>>
              [] DrawCase -> <<ResultTime, FALSE>>
              [] ~UserWon /\ ~UserLost /\ ~DrawCase /\ Len(data.players) = 1
                    /\ ~data.forfeited -> <<ResultTime, TRUE>>
              [] ~UserWon /\ ~UserLost /\ ~DrawCase /\ Len(data.players) = 1
                    /\ data.forfeited -> <<ResultTime, FALSE>>
              [] OTHER -> <<None, FALSE>>

\* a Match won by the opponent's forfeit, with a winner time, has been built
C4_Witness ==
    /\ Built /\ UserWon /\ data.forfeited /\ ResultTime # None
    /\ M.match_time = ResultTime /\ ~M.user_completed

\* C5: is_draw implies is_user_win is null; is_draw holds exactly when the
\* user was identified, the result has no winner uuid and the match is not
\* forfeited; is_user_win is non-null exactly when the user was identified and
\* a winner uuid exists, and then equals (user uuid = winner uuid).
C5_OutcomeTriState ==
    Built =>
        /\ M.is_draw => M.is_user_win = None
        /\ M.is_draw <=> (Identified /\ ResultUuid = None /\ ~data.forfeited)
        /\ M.is_user_win # None <=> (Identified /\ ResultUuid # None)
        /\ M.is_user_win # None => M.is_user_win = Some(M.user_uuid = ResultUuid)

\* a draw of the identified user has been built
C5_Witness == Built /\ M.is_draw /\ Identified /\ M.is_user_win = None

\* C6: a match stored as a raw API row and as a serialized field-map decodes
\* to records with equal fields on both readers of the cache; the raw row
\* decodes to Match(data), so every decoded record must equal it on the fields
\* id, date, players, winner, is_user_win, is_draw, match_time, user_completed.
KeyFields(m) ==
    <<m.id, m.date, m.players, m.winner, m.is_user_win, m.is_draw, m.match_time,
      m.user_completed>>
C6_ShapesDecodeEqual == decoded # None => KeyFields(Val(decoded)) = KeyFields(M)

(***************************************************************************)
(* Properties of RateLimitTracker (SpecRL).                                *)
(***************************************************************************)
AfterCanMakeRequest == rl_ret.op = "can_make_request"
\* the record_request() calls made at most window_seconds ago
CallsInWindow == {i \in 1..Len(calls) : calls[i] >= now - window_seconds}

\* C10 as stated: after exactly max_requests record_request() calls within
\* one window can_make_request() returns false, and once window_seconds have
\* elapsed since those calls, with no further call, it returns true again.
C10_WindowElapsed ==
    AfterCanMakeRequest =>
        /\ Cardinality(CallsInWindow) = max_requests => ~rl_ret.ret
        /\ (\A i \in 1..Len(calls) : now - calls[i] >= window_seconds) => rl_ret.ret

\* C10 amended: the limiter refuses while max_requests calls lie within the
\* last window_seconds (a call exactly window_seconds old still counts), and
\* admits again once more than window_seconds have passed since the calls.
C10_WindowStrictlyElapsed ==
    AfterCanMakeRequest =>
        /\ Cardinality(CallsInWindow) = max_requests => ~rl_ret.ret
        /\ (\A i \in 1..Len(calls) : now - calls[i] > window_seconds) => rl_ret.ret

\* the limiter was filled, the window passed, and it admits again
C10_Witness ==
    /\ AfterCanMakeRequest /\ rl_ret.ret
    /\ Len(calls) = max_requests
    /\ \A i \in 1..Len(calls) : now - calls[i] > window_seconds

\* C11: get_wait_time() returns 0 exactly when can_make_request() is true;
\* otherwise it returns the positive time until the oldest timestamp of the
\* ledger leaves the window, oldest + window_seconds - now.
AfterGetWaitTime == rl_ret.op = "get_wait_time"
C11_WaitZeroIffCanProceed ==
    AfterGetWaitTime =>
        /\ rl_ret.wait = 0 <=> rl_ret.ret
        /\ ~rl_ret.ret =>
              /\ rl_ret.wait > 0
              /\ rl_ret.wait = Head(requests) + window_seconds - now

(***************************************************************************)
(* Properties of the persisted rate-limit state (SpecRLState).             *)
(***************************************************************************)
AfterLoad == rl_ret.op = "load"
\* the state file is missing or corrupted in some way
FileCorrupted ==
    \/ rl_file.state # "ok"
    \/ \E i \in 1..Len(rl_file.request_timestamps) : rl_file.request_timestamps[i] = None
\* the persisted timestamps that are still inside the window: those less than
\* window_seconds old
PersistedInWindow ==
    LET kept == SelectSeq(rl_file.request_timestamps,
                          LAMBDA e : Val(e) > now - window_seconds)
    IN  [i \in 1..Len(kept) |-> Val(kept[i])]

\* C12: after load_rate_limit_state returns, the ledger holds exactly the
\* persisted timestamps that are still inside the window, and it is empty when
\* the state file is missing or corrupted in any way, a list that is only
\* partly valid included.
C12_LoadKeepsWindowOrEmpty ==
    AfterLoad =>
        requests = IF FileCorrupted THEN <<>> ELSE PersistedInWindow

(***************************************************************************)
(* Properties of filter_matches (SpecFilter).                              *)
(***************************************************************************)
AfterFilter == fpc = "filtered"
Ids(ms) == {ms[i].id : i \in 1..Len(ms)}
\* the position of the record with the given id in a list
IndexOf(ms, id) == CHOOSE i \in 1..Len(ms) : ms[i].id = id

\* C13: filtering is idempotent: once the analyzer's collection is replaced
\* by filter_matches(P), filter_matches(P) returns the same sequence again.
C13_FilterIdempotent == fpc = "again" => filtered = matches

\* two matches of equal date were sorted by date, descending, twice
C13_Witness ==
    /\ fpc = "again" /\ params.sort_by = "date" /\ params.sort_descending
    /\ Len(filtered) = 2 /\ filtered[1].date = filtered[2].date

\* the result of the same call with the other sort direction
OtherDirection ==
    FilterMatches(matches, [params EXCEPT !.sort_descending = ~params.sort_descending]).result

\* C14 as stated: with no predicates set every record of the collection is
\* returned, and the result sorted by date descending is the exact reversal
\* of the result sorted by date ascending, for any collection.
C14_DateSortReverses ==
    AfterFilter =>
        /\ params \in SortSettings(DefaultParams) =>
              Len(filtered) = Len(matches) /\ Ids(filtered) = Ids(matches)
        /\ params.sort_by = "date" => filtered = Reversed(OtherDirection)

\* C14 amended: with no predicates set every record is returned; the two
\* date orders are reversals of each other when the dates of the records are
\* pairwise distinct, and records of equal date keep the order they have in
\* the collection under both directions.
DistinctDates(ms) == \A i, j \in 1..Len(ms) : i # j => ms[i].date # ms[j].date
C14_DateSortReversesDistinctDates ==
    AfterFilter =>
        /\ params \in SortSettings(DefaultParams) =>
              Len(filtered) = Len(matches) /\ Ids(filtered) = Ids(matches)
        /\ (params.sort_by = "date" /\ DistinctDates(filtered)) =>
              filtered = Reversed(OtherDirection)
        /\ params.sort_by = "date" =>
              \A i, j \in 1..Len(filtered) :
                  (i < j /\ filtered[i].date = filtered[j].date) =>
                      IndexOf(matches, filtered[i].id) < IndexOf(matches, filtered[j].id)

\* a collection of two matches of different date, held newest first, was
\* returned whole and oldest first
C14_Witness ==
    /\ AfterFilter /\ params = [DefaultParams EXCEPT !.sort_descending = FALSE]
    /\ Len(filtered) = 2 /\ filtered[1].date < filtered[2].date
    /\ matches[1].date > matches[2].date

\* C15: with sort_by = 'time' every record whose match_time is null comes
\* after all records with a known match_time, for both sort directions.
C15_NullTimesLast ==
    (AfterFilter /\ params.sort_by = "time") =>
        \A i, j \in 1..Len(filtered) :
            (i < j /\ filtered[i].match_time = None) => filtered[j].match_time = None

\* the conjunction of the set predicates, for one record
Satisfies(m, p) ==
    /\ p.completed_only =>
          m.user_completed /\ m.match_time # None /\ ~m.is_draw /\ ~m.forfeited
    /\ p.user_completed # None => m.user_completed = Val(p.user_completed)
    /\ ~p.include_draws => ~m.is_draw
    /\ ~p.include_forfeits => ~m.forfeited
    /\ ~p.include_wins => m.is_user_win # Some(TRUE)
    /\ ~p.include_losses => m.is_user_win # Some(FALSE)
    /\ (p.require_time \/ p.min_time_ms # None \/ p.max_time_ms # None) =>
          m.match_time # None
    /\ (p.min_time_ms # None /\ m.match_time # None) =>
          Val(m.match_time) >= Val(p.min_time_ms)
    /\ (p.max_time_ms # None /\ m.match_time # None) =>
          Val(m.match_time) <= Val(p.max_time_ms)
    /\ ~p.include_private_rooms => (m.match_type # 3 /\ m.player_count <= 2)
    /\ p.match_types # None => m.match_type \in Val(p.match_types)
    /\ p.max_player_count # None => m.player_count <= Val(p.max_player_count)
    /\ p.require_user_identified => (m.user_uuid # None \/ m.player_count = 1)
    /\ p.has_detailed_data # None => m.has_detailed_data = Val(p.has_detailed_data)
    /\ p.seasons # None => m.season \in Val(p.seasons)
    /\ p.seed_types # None => m.seed_type \in Val(p.seed_types)
    /\ p.date_from # None => m.date >= Val(p.date_from).epoch
    /\ p.date_to # None => m.date <= Val(p.date_to).epoch

\* C16: filter_matches returns exactly the records of the collection that
\* satisfy the conjunction of all set predicates, each of them once; unset
\* predicates exclude nothing.
C16_FilterIsConjunction ==
    AfterFilter =>
        /\ Ids(filtered) = {matches[i].id : i \in {k \in 1..Len(matches) :
                                                     Satisfies(matches[k], params)}}
        /\ Len(filtered) = Cardinality(Ids(filtered))
        /\ \A i \in 1..Len(filtered) : filtered[i] = matches[IndexOf(matches, filtered[i].id)]

\* completed_only together with min_time_ms kept one of two matches
C16_Witness ==
    /\ AfterFilter /\ params.completed_only /\ params.min_time_ms # None
    /\ Len(matches) = 2 /\ Len(filtered) = 1

\* C17: filter_matches, the breakdowns, get_segment_stats, get_split_stats,
\* calculate_forecast and create_forecast_results leave the collection they
\* work on unchanged, in length, in order and in every field of every
\* record; the one step that replaces the collection is the caller's
\* assignment of the filtered list before it filters again.
C17_InputsUnchanged ==
    [][matches' = IF fpc = "filtered" /\ fpc' = "again" THEN filtered ELSE matches]_vars

\* a call without predicates returned the whole collection in another order
\* than the collection has
C17_Witness ==
    /\ AfterFilter /\ params \in SortSettings(DefaultParams)
    /\ Len(matches) = 2 /\ Len(filtered) = 2 /\ filtered # matches

\* the segment is the last one, in segment order, the record holds
IsLastPresent(m, segment) ==
    /\ segment \in DOMAIN m.segments
    /\ \A k \in 1..Len(SEGMENT_ORDER) :
          SEGMENT_ORDER[k] \in DOMAIN m.segments => k <= SegmentIndex(segment)
\* game_end contributes only when user_completed
GameEndRule(m, segment) == segment = "game_end" => m.user_completed
\* the values the claim lets the records of the collection contribute to a
\* segment, in collection order: all present ones, or all but the last
\* present segment of a draw or forfeit
Contributions(segment, field, without_last) ==
    LET own == SelectSeq(matches, LAMBDA m :
                   /\ segment \in DOMAIN m.segments /\ GameEndRule(m, segment)
                   /\ ~(without_last /\ (m.is_draw \/ m.forfeited)
                         /\ IsLastPresent(m, segment)))
    IN  [i \in 1..Len(own) |-> own[i].segments[segment][field]]
\* the statistics are those of the expected contributions
AggregatesAre(field, without_last) ==
    /\ DOMAIN report.result =
          {s \in Range(SEGMENT_ORDER) : Contributions(s, field, without_last) # <<>>}
    /\ \A s \in DOMAIN report.result :
          /\ report.result[s].times = Contributions(s, field, without_last)
          /\ report.result[s].matches = Len(Contributions(s, field, without_last))

\* C26: in get_split_stats the last present segment of a draw or forfeited
\* record contributes nothing to the split-time aggregate, while
\* get_segment_stats counts its absolute_time; every other present segment
\* contributes to both; game_end contributes only when user_completed.
C26_LastSegmentExcludedFromSplits ==
    /\ report.op = "get_split_stats" => AggregatesAre("split_time", TRUE)
    /\ report.op = "get_segment_stats" => AggregatesAre("absolute_time", FALSE)

\* the split statistics of a draw that ended in bastion_enter and of a loss
\* that reached it: one bastion_enter split, two nether_enter splits
C26_Witness ==
    /\ report.op = "get_split_stats" /\ Len(matches) = 2
    /\ \E i \in 1..2 : matches[i].is_draw /\ IsLastPresent(matches[i], "bastion_enter")
    /\ "bastion_enter" \in DOMAIN report.result
    /\ report.result["bastion_enter"].matches = 1
    /\ report.result["nether_enter"].matches = 2

(***************************************************************************)
(* Properties of SpeedrunForecaster (SpecForecast).                        *)
(***************************************************************************)
AfterForecast == report.op = "calculate_forecast"
DateOf(id) == matches[IndexOf(matches, id)].date
\* the ids of the other records that are completed, have detail data and are
\* dated strictly before the forecast run
CandidateIds ==
    {matches[i].id : i \in {k \in 1..Len(matches) :
        /\ matches[k].id # report.match.id
        /\ matches[k].user_completed /\ matches[k].has_detailed_data
        /\ matches[k].date < report.match.date}}
\* the collection without the other records dated at or after the run
UpToRun ==
    SelectSeq(matches, LAMBDA m : m.date < report.match.date \/ m.id = report.match.id)

\* C18: for every run with user_completed = true, calculate_forecast returns
\* exactly the run's match_time, whatever the rolling window, the percentile
\* and the other records are.
C18_CompletedForecastIsTime ==
    (AfterForecast /\ report.match.user_completed) =>
        report.result = report.match.match_time

C20_PercentileInterpolates ==
    report.op = "_calculate_percentile" =>
        LET xs == report.data
            pct == report.percentile
            n == Len(xs)
            sd == SortedNumbers(xs)
            floor == (pct * (n - 1)) \div 100
            frac == (pct * (n - 1)) % 100
            ceiling == IF frac = 0 THEN floor ELSE floor + 1
        IN  /\ pct = 0 => report.result = 100 * Min(Range(xs))
            /\ pct = 100 => report.result = 100 * Max(Range(xs))
            /\ (xs = <<1, 2, 3, 4, 5>> /\ pct = 50) => report.result = 300
            /\ (0 < pct /\ pct < 100) =>
                  report.result = sd[floor + 1] * (100 - frac) + sd[ceiling + 1] * frac

\* the 25th percentile of [7, 1, 3, 9] was taken: a quarter of 1 and three
\* quarters of 3
C20_Witness ==
    /\ report.op = "_calculate_percentile" /\ report.data = <<7, 1, 3, 9>>
    /\ report.percentile = 25 /\ report.result = 250

\* the number of runs of the historical set that hold the k-th segment
Samples(k) ==
    Cardinality({id \in Range(report.historical) :
        SEGMENT_ORDER[k] \in DOMAIN matches[IndexOf(matches, id)].segments})
\* the segments after the last one the forecast run reached
Remaining == (LastSegmentIndex(report.match) + 1)..Len(SEGMENT_ORDER)

\* C21: calculate_forecast returns None for an incomplete run whenever a
\* segment after its last-reached one has fewer than 3 absolute-time samples
\* in the historical window; create_forecast_results holds one entry for a
\* run exactly when its forecast is not None, with that forecast, and its
\* entries are in ascending order of forecast_time.
C21_NoPartialForecast ==
    /\ (AfterForecast /\ ~report.match.user_completed
            /\ \E k \in Remaining : Samples(k) < 3)
          => report.result = None
    /\ report.op = "create_forecast_results" =>
          /\ \A i \in 1..Len(matches) :
                LET entries == {j \in 1..Len(report.result) :
                                   report.result[j].match = matches[i].id}
                    forecast == CalculateForecast(fc, matches[i])
                IN  IF forecast = None THEN entries = {}
                    ELSE /\ Cardinality(entries) = 1
                         /\ \A j \in entries : report.result[j].forecast_time = Val(forecast)
          /\ Len(report.result) <= Len(matches)
          /\ \A j \in 1..(Len(report.result) - 1) :
                report.result[j].forecast_time <= report.result[j + 1].forecast_time

\* an incomplete run with detail data got no forecast although its next
\* segment has three samples: a later segment has only two
C21_Witness ==
    /\ AfterForecast /\ ~report.match.user_completed
    /\ report.match.has_detailed_data /\ Remaining # {}
    /\ Samples(LastSegmentIndex(report.match) + 1) >= 3
    /\ \E k \in Remaining : Samples(k) = 2
    /\ report.result = None

\* the absolute times of the k-th segment in the historical set, and their
\* target percentile P, in hundredths
SampleTimes(k) ==
    LET own == SelectSeq(report.historical, LAMBDA id :
                   SEGMENT_ORDER[k] \in DOMAIN matches[IndexOf(matches, id)].segments)
    IN  [i \in 1..Len(own) |->
            matches[IndexOf(matches, own[i])].segments[SEGMENT_ORDER[k]].absolute_time]
P100(k) == CalculatePercentile(SampleTimes(k), fc.percentile)
\* the sum of max(0, P(sk) - P(sk-1)) over the segments from the k-th on
RECURSIVE LaterSplits100(_)
LaterSplits100(k) ==
    IF k > Len(SEGMENT_ORDER) THEN 0
    ELSE Max({0, P100(k) - P100(k - 1)}) + LaterSplits100(k + 1)
\* the absolute time of the last segment the forecast run reached
ReachedTime == report.match.segments[SEGMENT_ORDER[LastSegmentIndex(report.match)]].absolute_time
\* t + max(0, P(s1) - t) + the later splits, in hundredths
ProjectedSum100 ==
    LET first == LastSegmentIndex(report.match) + 1
    IN  100 * ReachedTime + Max({0, P100(first) - 100 * ReachedTime})
          + LaterSplits100(first + 1)
\* an incomplete run that got a forecast from the historical percentiles
Forecastable ==
    /\ AfterForecast /\ ~report.match.user_completed /\ report.result # None
    /\ Remaining # {}
\* the scenario: historical nether_enter times 100, 120, 140, the median
\* asked for, and a run that stopped at nether_enter at 110
Scenario ==
    /\ Forecastable /\ LastSegmentIndex(report.match) = 1 /\ ReachedTime = 110
    /\ fc.percentile = 50 /\ Len(SampleTimes(1)) = 3
    /\ Range(SampleTimes(1)) = {100, 120, 140}
\* in the scenario the projection starts from 120, not from 110
ScenarioFrom120 ==
    Scenario =>
        /\ P100(1) = 100 * 120
        /\ Val(report.result) = (100 * 120 + LaterSplits100(2)) \div 100

\* C25 as stated: the forecast of an incomplete, forecastable run equals
\* t + max(0, P(s1) - t) + the sum over the later remaining segments of
\* max(0, P(sk) - P(sk-1)); in the scenario the projection is 120 plus the
\* typical splits.
C25_ForecastIsProjectedSum ==
    /\ Forecastable => 100 * Val(report.result) = ProjectedSum100
    /\ ScenarioFrom120

\* C25, amended: the forecast is the integer part of that sum.
C25_ForecastIsIntegerPartOfSum ==
    /\ Forecastable => Val(report.result) = ProjectedSum100 \div 100
    /\ ScenarioFrom120

\* a forecast whose sum is no whole number of milliseconds
C25_Witness == Forecastable /\ ProjectedSum100 % 100 # 0

(***************************************************************************)
(* Properties of the fetch pipeline (SpecFetch, FairSpecFetch).            *)
(***************************************************************************)
CallReturned == an.pc = "returned"
\* the ids the cache file held when the call began
CachedBefore == CacheIds(an.cache_before)
SameRequest(r1, r2) ==
    /\ r1.kind = r2.kind /\ r1.season = r2.season
    /\ r1.count = r2.count /\ r1.before = r2.before

\* C2: over any sequence of fetch_all_matches calls the persisted match cache
\* never loses an id it held before a call, and an incremental sync returns a
\* collection whose ids are a superset of the ids cached before it.
C2_CacheNeverRegresses ==
    CallReturned =>
        /\ CachedBefore \subseteq CacheIds(cache)
        /\ an.mode = "incr" => CachedBefore \subseteq Range(an.matches)

\* C3: a call with use_cache = true that finds a readable match cache does an
\* incremental refresh, so that every match on the server newer than the
\* cached ones is in the collection it returns.
C3_IncrementalOnExistingCache ==
    (CallReturned /\ an.use_cache /\ an.cache_before.state = "ok"
        /\ ~an.cache_before.damaged) =>
        \A i \in 1..Len(an.server_before) :
            (\A j \in CachedBefore : i > j) => i \in Range(an.matches)

\* C7: a request answered with 429 is followed by the same request (same
\* season and cursor for a page, same season for a discovery probe) before any
\* different request is made.
C7_RetrySameRequest == prev.status = "429" => SameRequest(req, prev)

\* C8: retrying on 429 is bounded: every page loop eventually returns, also
\* when the server keeps answering 429; as the loops of a call are finitely
\* many, a call that is in a page loop eventually returns.
C8_PageLoopReturns == (an.pc \in {"page", "backoff"}) ~> (an.pc = "returned")

\* C9: when a page request is answered with a status other than 200 and 429,
\* or raises a transport error, the page loop stops and returns exactly the
\* rows accumulated from the earlier pages, and fetch_all_matches goes on
\* without raising: it has returned its collection or pages the next season.
PageFailed == req.kind = "page" /\ req.status \in {"500", "RequestException"}
C9_ErrorReturnsAccumulated ==
    PageFailed =>
        /\ an.loop_ret.status = req.status
        /\ an.loop_ret.ret = an.loop_ret.before
        /\ \/ an.pc = "returned"
           \/ an.pc = "page" /\ an.loop.rows = <<>> /\ an.loop.season # req.season

\* a transport error on a later page ended a call that keeps the earlier rows
C9_Witness ==
    /\ CallReturned /\ req.kind = "page" /\ req.status = "RequestException"
    /\ an.loop_ret.before # <<>> /\ Range(an.loop_ret.before) \subseteq Range(an.matches)

\* an incremental refresh is paging a season of which it has already fetched
\* a row whose id is in the cached id set
KnownFetched ==
    /\ an.mode = "incr" /\ an.pc \in {"page", "backoff"}
    /\ Range(an.loop.rows) \cap an.existing_match_ids # {}
\* the step sends an API request
SendsRequest == \E status \in Statuses : Page(status) \/ Probe(status)

\* C22: during an incremental refresh, once a fetched row whose id is in the
\* cached id set has been encountered, no further API request is issued,
\* neither for further pages of the season being paged nor for an older
\* season.
C22_StopsAtKnownId == [][KnownFetched => ~SendsRequest]_vars

\* the rows of the answer to the last request, a page request answered 200
LastPage == ServerPage(server, req.season, req.count, req.before)
\* the step requests a further page of the loop whose last request was
\* answered 200
FurtherPage ==
    /\ an.pc = "page" /\ an.loop.rows # <<>>
    /\ req.kind = "page" /\ req.status = "200"
    /\ \E status \in Statuses : Page(status)

\* C23: the page loop requests its first page without a cursor and each
\* further page with before = the id of the last row of the previous page,
\* and it issues no further request after a page that is empty or has fewer
\* rows than were requested.
C23_CursorAndShortPageStop ==
    [][/\ ((an.pc = "page" /\ an.loop.rows = <<>> /\ \E status \in Statuses : Page(status))
              => req'.before = None)
       /\ FurtherPage =>
              /\ LastPage # <<>>
              /\ req'.before = Some(LastPage[Len(LastPage)])
              /\ Len(LastPage) = req.count]_vars

(***************************************************************************)
(* Properties of the pacing of the fetch loops (SpecPace).                 *)
(***************************************************************************)
\* the ledger timestamps lying within the last window_seconds; a timestamp
\* exactly window_seconds old is not counted
InWindow == {i \in 1..Len(requests) : requests[i] > now - window_seconds}

\* C24: every request of a fetch loop, a retry after a 429 included, is
\* sent after a can_make_request() check made since the previous request
\* and, when the check was false, after a sleep of get_wait_time(); and the
\* timestamps recorded during the fetch are as many as the requests sent.
C24_CheckedAndRecorded ==
    /\ pace.pc = "request" => (pace.checked /\ (pace.can \/ now >= pace.wake))
    /\ Len(calls) - pace.calls_before = pace.sent

\* a retry after a 429 is about to be sent, after a check that was false and
\* a sleep
C24_Witness ==
    /\ pace.pc = "request" /\ pace.loop \in PageLoops
    /\ pace.left = MaxIter /\ pace.sent >= 2
    /\ pace.checked /\ ~pace.can /\ pace.wake > 0

\* C28: under the pacing protocol of the fetch loops the number of ledger
\* timestamps lying within the last window_seconds never exceeds
\* max_requests.
C28_WindowNeverExceeded == Cardinality(InWindow) <= max_requests

(***************************************************************************)
(* Properties of the detail data                                           *)
(***************************************************************************)
\* the indices in segment order of the segments a dict holds
Present(segments) == {k \in 1..Len(SEGMENT_ORDER) : SEGMENT_ORDER[k] \in DOMAIN segments}
\* the segments dicts that fetch_segment_data has filled: those of the
\* matches of the analyzers and those of the threads' segment caches
PopulatedSegments ==
    {analyzers[a].matches[i].segments :
        a \in 1..Len(analyzers), i \in 1..Len(DetailMatches)}
      \cup UNION {Range(threads[t].segment_cache) : t \in 1..Len(threads)}
SplitsSum(segments) ==
    SumSeq([k \in 1..Len(SEGMENT_ORDER) |->
               IF k \in Present(segments) THEN segments[SEGMENT_ORDER[k]].split_time ELSE 0])

\* C27: after fetch_segment_data populates a match, each present segment's
\* split_time is its absolute_time minus the absolute_time of the previous
\* present segment in segment order (minus 0 for the first present one), and
\* the split_times of the match sum to the absolute_time of its last present
\* segment.
C27_SplitsAreDifferences ==
    \A segments \in PopulatedSegments :
        /\ \A k \in Present(segments) :
              LET before == {j \in Present(segments) : j < k}
              IN  segments[SEGMENT_ORDER[k]].split_time =
                      segments[SEGMENT_ORDER[k]].absolute_time
                          - (IF before = {} THEN 0
                             ELSE segments[SEGMENT_ORDER[Max(before)]].absolute_time)
        /\ Present(segments) # {} =>
              SplitsSum(segments) =
                  segments[SEGMENT_ORDER[Max(Present(segments))]].absolute_time

\* a match was populated from a timeline without a bastion event: its
\* fortress split counts from the nether entry
C27_Witness ==
    \E a \in 1..Len(analyzers), i \in 1..Len(DetailMatches) :
        LET segments == analyzers[a].matches[i].segments
        IN  /\ analyzers[a].matches[i].has_detailed_data
            /\ DOMAIN segments = {"nether_enter", "fortress_enter", "stronghold_enter"}
            /\ segments["fortress_enter"].split_time = 190
            /\ \E t \in 1..Len(threads) : analyzers[a].matches[i].id \in threads[t].fetched

\* two fetch operations overlapped and both have finished
BothFinished ==
    /\ \E t \in 1..Len(threads) : threads[t].overlapped
    /\ \A t \in 1..Len(threads) : threads[t].pc = "done"
\* the persisted segment cache holds every entry a thread fetched
NoEntryLost ==
    \A t \in 1..Len(threads) : threads[t].fetched \subseteq DOMAIN segment_file
\* the persisted ledger holds a timestamp for every request a thread sent
\* that is still inside the window
SentAt(v) ==
    SumSeq([t \in 1..Len(threads) |->
               Cardinality({i \in 1..Len(threads[t].sent) : threads[t].sent[i] = v})])
PersistedAt(v) ==
    Cardinality({i \in 1..Len(rl_file.request_timestamps) :
                    rl_file.request_timestamps[i] = Some(v)})
NoTimestampLost ==
    \A v \in 0..MaxClock : v >= now - window_seconds => PersistedAt(v) >= SentAt(v)

\* C30: when two fetch operations for the same username overlap, no update
\* is lost: after both finish, the persisted segment cache contains every
\* entry either operation fetched and the persisted rate-limit ledger
\* contains a timestamp for every request either operation sent.
C30_NoLostUpdate == BothFinished => (NoEntryLost /\ NoTimestampLost)

\* C29: in a collection whose segment data comes only from
\* fetch_segment_data no match holds an end_enter or game_end segment, so
\* calculate_forecast returns None for every run that is not completed and
\* create_forecast_results lists completed runs only.
C29_OnlyCompletedForecast ==
    /\ \A i \in 1..Len(matches) :
          DOMAIN matches[i].segments \cap {"end_enter", "game_end"} = {}
    /\ (AfterForecast /\ ~report.match.user_completed) => report.result = None
    /\ report.op = "create_forecast_results" =>
          \A j \in 1..Len(report.result) : report.result[j].is_completed

\* an incomplete run with detail data got no forecast although every
\* remaining segment that a fetch can store has at least three samples
C29_Witness ==
    /\ AfterForecast /\ ~report.match.user_completed
    /\ report.match.has_detailed_data
    /\ LastSegmentIndex(report.match) < 5
    /\ \A k \in Remaining : k <= 5 => Samples(k) >= 3
    /\ \A i \in 1..Len(matches) :
          DOMAIN matches[i].segments \cap {"end_enter", "game_end"} = {}
    /\ report.result = None

====
